---------------------------- MODULE Spec2Model ----------------------------
(***************************************************************************)
(* A model of the translation orchestrator: the two-tier translation cache *)
(* (services/translation_cache.py), the dispatcher AILocalTranslator       *)
(* (core/ai_translator.py) with its request ledger, and the bounded        *)
(* fan-out of translate_to_all_languages and batch_translate.              *)
(*                                                                         *)
(* Python strings are sequences of one-character strings, so that          *)
(* len(text), text.strip() and the f-string cache key are computed as the  *)
(* code computes them.  Time is a natural-number clock; one tick is the    *)
(* resolution of datetime.now(), and an operation of the cache service     *)
(* reads the clock once.                                                   *)
(***************************************************************************)
EXTENDS Integers, Sequences, FiniteSets, TLC

VARIABLES
    now,                  \* datetime.now() / time.time()
    config,               \* utils/config.py: the values read from the environment
    memory_cache,         \* TranslationCacheService.memory_cache of the translator
    translation_cache,    \* rows of table translation_cache (durable tier)
    translation_requests, \* rows of table translation_requests (ledger), by id
    ollama_client,        \* AILocalTranslator.ollama_client is set (TRUE) or None
    generate_calls,       \* number of POST /api/generate requests issued so far
    tasks,                \* the running coroutines: position and locals of each
    semaphore,            \* permits left of the semaphore of the fan-out call
    fanout,               \* the translate_to_all_languages / batch_translate call
    cache_log,            \* the last calls made on the cache service (history)
    translation_service   \* the TranslationService object: its fields

vars == <<now, config, memory_cache, translation_cache, translation_requests,
          ollama_client, generate_calls, tasks, semaphore, fanout, cache_log,
          translation_service>>

---------------------------------------------------------------------------
(* Bounds of the model *)

MaxTime == 2          \* the clock stops ticking here
MaxTTL == 2           \* CACHE_TTL is drawn from 1..MaxTTL
MaxTextLen == 2       \* MAX_TEXT_LENGTH of the runs
MaxCalls == 2         \* translate_text calls made one after the other by a caller
MaxBranches == 2      \* branches of a fan-out call (languages, or texts of a batch)
MaxK == 2             \* MAX_CONCURRENT_TRANSLATIONS is drawn from 1..MaxK
MaxClears == 1        \* clear_cache calls made on the cache service
MaxBodyLen == 4       \* length of the 'response' field of a backend answer

---------------------------------------------------------------------------
(* Values *)

\* Python's None where a str is expected (no text is the one-element
\* sequence holding this token: characters are one-character strings).
None == <<"<None>">>

\* A list item that is not a str (an int, say): text.strip() raises on it.
NonStr == <<"<int>">>

\* Result of a cache lookup that found nothing (Python's None for a dict).
NoEntry == [found |-> FALSE]

\* The source_language sentinel 'auto' and the language codes.
Auto == <<"a", "u", "t", "o">>
En == <<"e", "n">>
Vi == <<"v", "i">>
Ja == <<"j", "a">>
Ko == <<"k", "o">>
Ru == <<"r", "u">>
Fa == <<"f", "a">>
Th == <<"t", "h">>
Zh == <<"z", "h">>
Id == <<"i", "d">>
Ms == <<"m", "s">>
De == <<"d", "e">>
Fr == <<"f", "r">>
Es == <<"e", "s">>
It == <<"i", "t">>

\* config.SUPPORTED_LANGUAGES, and the 'languages' of the llama2 model
SUPPORTED_LANGUAGES == <<En, Vi, Ja, Ko, Ru, Fa, Zh, Th, Id, Ms, De, Fr, Es, It>>

\* AILocalTranslator.model_name
MODEL_NAME == "llama2"

\* confidence_score = None
NoScore == "None"

\* NULL in a numeric column, None for a float.
NoTime == -1
\* None where a status or an error message (not a text) is expected.
NoStr == "None"

Max(S) == CHOOSE x \in S : \A y \in S : y <= x

\* dict[key] = value, and del dict[key]
DictSet(d, k, v) == [x \in (DOMAIN d) \cup {k} |-> IF x = k THEN v ELSE d[x]]
DictDel(d, k) == [x \in (DOMAIN d) \ {k} |-> d[x]]
EmptyDict == [x \in {} |-> 0]

---------------------------------------------------------------------------
(* services/translation_cache.py *)

\* cache_key = f"{source_lang}:{target_lang}:{source_text}"
cache_key(source_text, source_lang, target_lang) ==
    source_lang \o <<":">> \o target_lang \o <<":">> \o source_text

\* Variant of _is_cache_valid with an inclusive bound (<= instead of <).
is_cache_valid_inclusive(cached_data, t) ==
    t - cached_data.cached_at <= config.CACHE_TTL

\* _is_cache_valid: datetime.now() - cached_at < timedelta(seconds=cache_ttl).
\* cached_at is always a datetime: both writers of memory_cache set it.
is_cache_valid(cached_data, t) ==
    t - cached_data.cached_at < config.CACHE_TTL

\* _is_cache_valid_db: created_at is set by the column default on insert.
is_cache_valid_db(cache_entry, t) ==
    t - cache_entry.created_at < config.CACHE_TTL

\* select(TranslationCache).where(source_text ==, source_language ==, target_language ==)
select_cache(rows, source_text, source_lang, target_lang) ==
    {r \in rows : /\ r.source_text = source_text
                  /\ r.source_language = source_lang
                  /\ r.target_language = target_lang}

\* The autoincrement primary key of a new row.
next_id(rows) == IF rows = {} THEN 1 ELSE 1 + Max({r.id : r \in rows})

CacheState(mem, rows, result) ==
    [memory_cache |-> mem, translation_cache |-> rows, result |-> result]

\* get_cached_translation, lines 33-42: the memory tier.  A valid entry is
\* returned; an expired one is deleted and the lookup goes on to the table.
get_cached_memory(mem, t, source_text, source_lang, target_lang) ==
    LET key == cache_key(source_text, source_lang, target_lang)
    IN  IF key \in DOMAIN mem
        THEN IF is_cache_valid(mem[key], t)
             THEN [memory_cache |-> mem, result |-> [found |-> TRUE, data |-> mem[key]]]
             ELSE [memory_cache |-> DictDel(mem, key), result |-> NoEntry]
        ELSE [memory_cache |-> mem, result |-> NoEntry]

\* Variant of the durable tier of the lookup that leaves an expired row in
\* the table.
get_cached_db_keeping_expired(mem, rows, t, source_text, source_lang, target_lang, db_ok) ==
    LET key == cache_key(source_text, source_lang, target_lang)
        found == select_cache(rows, source_text, source_lang, target_lang)
    IN  IF ~db_ok \/ Cardinality(found) # 1
        THEN CacheState(mem, rows, NoEntry)
        ELSE LET cache_entry == CHOOSE r \in found : TRUE
                 hit == [cache_entry EXCEPT !.hit_count = @ + 1, !.last_accessed = t]
                 cached_data == [translated_text |-> hit.translated_text,
                                 model_used |-> hit.model_used,
                                 confidence_score |-> hit.confidence_score,
                                 cached_at |-> hit.created_at,
                                 hit_count |-> hit.hit_count]
             IN  IF is_cache_valid_db(cache_entry, t)
                 THEN CacheState(DictSet(mem, key, cached_data),
                                 (rows \ {cache_entry}) \cup {hit},
                                 [found |-> TRUE, data |-> cached_data])
                 ELSE CacheState(mem, rows, NoEntry)

\* Variant of the durable tier of the lookup that serves a row without
\* counting the hit.
get_cached_db_uncounted(mem, rows, t, source_text, source_lang, target_lang, db_ok) ==
    LET key == cache_key(source_text, source_lang, target_lang)
        found == select_cache(rows, source_text, source_lang, target_lang)
    IN  IF ~db_ok \/ Cardinality(found) > 1
        THEN CacheState(mem, rows, NoEntry)
        ELSE IF found = {}
        THEN CacheState(mem, rows, NoEntry)
        ELSE LET cache_entry == CHOOSE r \in found : TRUE
                 hit == [cache_entry EXCEPT !.last_accessed = t]
                 cached_data == [translated_text |-> hit.translated_text,
                                 model_used |-> hit.model_used,
                                 confidence_score |-> hit.confidence_score,
                                 cached_at |-> hit.created_at,
                                 hit_count |-> hit.hit_count]
             IN  IF is_cache_valid_db(cache_entry, t)
                 THEN CacheState(DictSet(mem, key, cached_data),
                                 (rows \ {cache_entry}) \cup {hit},
                                 [found |-> TRUE, data |-> cached_data])
                 ELSE CacheState(mem, rows \ {cache_entry}, NoEntry)

\* get_cached_translation, lines 44-86: the durable tier.  db_ok = FALSE:
\* the session, the query or the commit raises; the except clause logs and
\* None is returned (the rollback leaves the table as it was).  More than
\* one matching row makes scalar_one_or_none() raise, with the same outcome.
get_cached_db(mem, rows, t, source_text, source_lang, target_lang, db_ok) ==
    LET key == cache_key(source_text, source_lang, target_lang)
        found == select_cache(rows, source_text, source_lang, target_lang)
    IN  IF ~db_ok \/ Cardinality(found) > 1
        THEN CacheState(mem, rows, NoEntry)
        ELSE IF found = {}
        THEN CacheState(mem, rows, NoEntry)
        ELSE LET cache_entry == CHOOSE r \in found : TRUE
                 hit == [cache_entry EXCEPT !.hit_count = @ + 1, !.last_accessed = t]
                 cached_data == [translated_text |-> hit.translated_text,
                                 model_used |-> hit.model_used,
                                 confidence_score |-> hit.confidence_score,
                                 cached_at |-> hit.created_at,
                                 hit_count |-> hit.hit_count]
             IN  IF is_cache_valid_db(cache_entry, t)
                 THEN CacheState(DictSet(mem, key, cached_data),
                                 (rows \ {cache_entry}) \cup {hit},
                                 [found |-> TRUE, data |-> cached_data])
                 ELSE CacheState(mem, rows \ {cache_entry}, NoEntry)

\* get_cached_translation, lines 20-86, as one call.
get_cached_translation(mem, rows, t, source_text, source_lang, target_lang, db_ok) ==
    LET m == get_cached_memory(mem, t, source_text, source_lang, target_lang)
    IN  IF m.result.found
        THEN CacheState(m.memory_cache, rows, m.result)
        ELSE get_cached_db(m.memory_cache, rows, t, source_text, source_lang, target_lang, db_ok)

\* Variant of the memory half that leaves the memory tier as it is.
cache_translation_memory_skipped(mem, t, source_text, source_lang, target_lang, translated_text, model_used, confidence_score) ==
    mem

\* cache_translation, lines 105-115: the memory tier is always refreshed.
cache_translation_memory(mem, t, source_text, source_lang, target_lang, translated_text, model_used, confidence_score) ==
    DictSet(mem, cache_key(source_text, source_lang, target_lang),
            [translated_text |-> translated_text,
             model_used |-> model_used,
             confidence_score |-> confidence_score,
             cached_at |-> t,
             hit_count |-> 1])

\* Variant of the durable half that never looks for an existing row.
cache_translation_db_insert_only(rows, t, source_text, source_lang, target_lang, translated_text, model_used, confidence_score, db_ok) ==
    IF ~db_ok
    THEN rows
    ELSE rows \cup {[id |-> next_id(rows),
                     source_text |-> source_text,
                     source_language |-> source_lang,
                     target_language |-> target_lang,
                     translated_text |-> translated_text,
                     model_used |-> model_used,
                     confidence_score |-> confidence_score,
                     hit_count |-> 1,
                     created_at |-> t,
                     last_accessed |-> t]}

\* Variant of the durable half that keeps the text of an existing row.
cache_translation_db_text_kept(rows, t, source_text, source_lang, target_lang, translated_text, model_used, confidence_score, db_ok) ==
    LET found == select_cache(rows, source_text, source_lang, target_lang)
    IN  IF ~db_ok \/ Cardinality(found) > 1
        THEN rows
        ELSE IF found = {}
        THEN rows \cup {[id |-> next_id(rows),
                         source_text |-> source_text,
                         source_language |-> source_lang,
                         target_language |-> target_lang,
                         translated_text |-> translated_text,
                         model_used |-> model_used,
                         confidence_score |-> confidence_score,
                         hit_count |-> 1,
                         created_at |-> t,
                         last_accessed |-> t]}
        ELSE LET existing == CHOOSE r \in found : TRUE
             IN  (rows \ {existing}) \cup
                 {[existing EXCEPT !.model_used = model_used,
                                   !.confidence_score = confidence_score,
                                   !.last_accessed = t]}

\* Variant of the durable half that gives an existing row a new creation
\* time and hit count.
cache_translation_db_recreating(rows, t, source_text, source_lang, target_lang, translated_text, model_used, confidence_score, db_ok) ==
    LET found == select_cache(rows, source_text, source_lang, target_lang)
    IN  IF ~db_ok \/ Cardinality(found) > 1
        THEN rows
        ELSE IF found = {}
        THEN rows \cup {[id |-> next_id(rows),
                         source_text |-> source_text,
                         source_language |-> source_lang,
                         target_language |-> target_lang,
                         translated_text |-> translated_text,
                         model_used |-> model_used,
                         confidence_score |-> confidence_score,
                         hit_count |-> 1,
                         created_at |-> t,
                         last_accessed |-> t]}
        ELSE LET existing == CHOOSE r \in found : TRUE
             IN  (rows \ {existing}) \cup
                 {[existing EXCEPT !.translated_text = translated_text,
                                   !.model_used = model_used,
                                   !.confidence_score = confidence_score,
                                   !.created_at = t,
                                   !.hit_count = 1,
                                   !.last_accessed = t]}

\* cache_translation, lines 117-153: the durable tier.  db_ok = FALSE (or a
\* duplicate row, on which scalar_one_or_none() raises): logged, no change.
cache_translation_db(rows, t, source_text, source_lang, target_lang, translated_text, model_used, confidence_score, db_ok) ==
    LET found == select_cache(rows, source_text, source_lang, target_lang)
    IN  IF ~db_ok \/ Cardinality(found) > 1
        THEN rows
        ELSE IF found = {}
        THEN rows \cup {[id |-> next_id(rows),
                         source_text |-> source_text,
                         source_language |-> source_lang,
                         target_language |-> target_lang,
                         translated_text |-> translated_text,
                         model_used |-> model_used,
                         confidence_score |-> confidence_score,
                         hit_count |-> 1,
                         created_at |-> t,
                         last_accessed |-> t]}
        ELSE LET existing == CHOOSE r \in found : TRUE
             IN  (rows \ {existing}) \cup
                 {[existing EXCEPT !.translated_text = translated_text,
                                   !.model_used = model_used,
                                   !.confidence_score = confidence_score,
                                   !.last_accessed = t]}

\* Variant of cache_translation without the test of the configuration flag.
cache_translation_always(mem, rows, t, source_text, source_lang, target_lang, translated_text, model_used, confidence_score, db_ok) ==
    CacheState(
        cache_translation_memory(mem, t, source_text, source_lang, target_lang, translated_text, model_used, confidence_score),
        cache_translation_db(rows, t, source_text, source_lang, target_lang, translated_text, model_used, confidence_score, db_ok),
        NoEntry)

\* Variant of cache_translation that fills the memory tier only once the
\* durable write has succeeded.
cache_translation_after_commit(mem, rows, t, source_text, source_lang, target_lang, translated_text, model_used, confidence_score, db_ok) ==
    IF ~config.CACHE_ENABLED \/ ~db_ok
    THEN CacheState(mem, rows, NoEntry)
    ELSE CacheState(
             cache_translation_memory(mem, t, source_text, source_lang, target_lang, translated_text, model_used, confidence_score),
             cache_translation_db(rows, t, source_text, source_lang, target_lang, translated_text, model_used, confidence_score, db_ok),
             NoEntry)

\* cache_translation, lines 88-153, as one call.
cache_translation(mem, rows, t, source_text, source_lang, target_lang, translated_text, model_used, confidence_score, db_ok) ==
    IF ~config.CACHE_ENABLED
    THEN CacheState(mem, rows, NoEntry)
    ELSE CacheState(
             cache_translation_memory(mem, t, source_text, source_lang, target_lang, translated_text, model_used, confidence_score),
             cache_translation_db(rows, t, source_text, source_lang, target_lang, translated_text, model_used, confidence_score, db_ok),
             NoEntry)

---------------------------------------------------------------------------
(* Python str operations *)

\* The characters str.strip() removes, among those of the model's texts.
Whitespace == {" "}

RECURSIVE lstrip(_)
lstrip(s) == IF s # <<>> /\ Head(s) \in Whitespace THEN lstrip(Tail(s)) ELSE s

RECURSIVE rstrip(_)
rstrip(s) ==
    IF s # <<>> /\ s[Len(s)] \in Whitespace THEN rstrip(SubSeq(s, 1, Len(s) - 1)) ELSE s

strip(s) == rstrip(lstrip(s))

startswith(s, prefix) ==
    Len(s) >= Len(prefix) /\ SubSeq(s, 1, Len(prefix)) = prefix

endswith(s, suffix) ==
    Len(s) >= Len(suffix) /\ SubSeq(s, Len(s) - Len(suffix) + 1, Len(s)) = suffix

\* str.lower(): the upper-case letters of the model's texts are T and H.
lower_char(c) == CASE c = "T" -> "t" [] c = "H" -> "h" [] OTHER -> c
lower(s) == [i \in 1..Len(s) |-> lower_char(s[i])]

\* bool(text) for a str or None
truthy(text) == text # None /\ text # <<>>

---------------------------------------------------------------------------
(* utils/ollama_client.py *)

prefixes_to_remove ==
    << <<"T","r","a","n","s","l","a","t","i","o","n",":">>,
       <<"T","r","a","n","s","l","a","t","e","d"," ","t","e","x","t",":">>,
       <<"H","e","r","e"," ","i","s"," ","t","h","e"," ","t","r","a","n","s","l","a","t","i","o","n",":">>,
       <<"T","h","e"," ","t","r","a","n","s","l","a","t","i","o","n"," ","i","s",":">> >>

\* for prefix in prefixes_to_remove: if response.lower().startswith(prefix.lower()): ...
RECURSIVE remove_prefixes(_, _)
remove_prefixes(response, i) ==
    IF i > Len(prefixes_to_remove)
    THEN response
    ELSE LET prefix == prefixes_to_remove[i]
         IN  remove_prefixes(
                 IF startswith(lower(response), lower(prefix))
                 THEN strip(SubSeq(response, Len(prefix) + 1, Len(response)))
                 ELSE response,
                 i + 1)

\* _clean_translation_response, lines 162-182
clean_translation_response(response) ==
    LET r == remove_prefixes(strip(response), 1)
        unquoted == IF startswith(r, <<"\"">>) /\ endswith(r, <<"\"">>)
                    THEN SubSeq(r, 2, Len(r) - 1)
                    ELSE r
    IN  strip(unquoted)

\* What POST /api/generate comes back with: a transport error, or a status
\* code with a body that is JSON or not, with a 'response' field or not.
TransportError == [kind |-> "error", status_code |-> 0, json |-> FALSE, has_response |-> FALSE, response |-> <<>>]
HttpError == [kind |-> "http", status_code |-> 500, json |-> FALSE, has_response |-> FALSE, response |-> <<>>]
Http200(body) == [kind |-> "http", status_code |-> 200, json |-> TRUE, has_response |-> TRUE, response |-> body]

\* OllamaClient.translate, lines 94-128, from the response on
ollama_translate(resp) ==
    IF resp.kind = "error"
    THEN None
    ELSE IF resp.status_code = 200
    THEN IF ~resp.json
         THEN None
         ELSE clean_translation_response(
                  strip(IF resp.has_response THEN resp.response ELSE <<>>))
    ELSE None

---------------------------------------------------------------------------
(* core/ai_translator.py *)

\* Variant of the blank test without the strip().
is_blank_empty_only(text) == text = None \/ text = <<>>

\* `not text or not text.strip()`, line 54
is_blank(text) == text = None \/ text = <<>> \/ strip(text) = <<>>

\* Variant of the length check that lets one more character through.
too_long_off_by_one(text) == Len(text) > config.MAX_TEXT_LENGTH + 1

\* len(text) > config.MAX_TEXT_LENGTH, line 58
too_long(text) == Len(text) > config.MAX_TEXT_LENGTH

\* Characters of the scripts detect_language looks for: one code point of
\* each range stands for the range.
CJK == {"{4e00}"}
Hangul == {"{ac00}"}
Cyrillic == {"{0400}"}
Arabic == {"{0600}"}
Thai == {"{0e00}"}
has_char(text, range) == \E i \in 1..Len(text) : text[i] \in range

\* Variant of the detection that has no default for Latin script.
detect_language_without_default(text) ==
    IF is_blank(text) THEN Auto
    ELSE IF has_char(text, CJK) THEN Ja
    ELSE IF has_char(text, Hangul) THEN Ko
    ELSE IF has_char(text, Cyrillic) THEN Ru
    ELSE IF has_char(text, Arabic) THEN Fa
    ELSE IF has_char(text, Thai) THEN Th
    ELSE Auto

\* detect_language, lines 179-198 (the second CJK test is never reached)
detect_language(text) ==
    IF is_blank(text) THEN Auto
    ELSE IF has_char(text, CJK) THEN Ja
    ELSE IF has_char(text, Hangul) THEN Ko
    ELSE IF has_char(text, Cyrillic) THEN Ru
    ELSE IF has_char(text, Arabic) THEN Fa
    ELSE IF has_char(text, Thai) THEN Th
    ELSE En

\* Variant of the insert that leaves the status to the column default.
create_translation_request_default_status(requests, text, source_lang, target_lang, db_ok) ==
    IF db_ok
    THEN [translation_requests |->
              Append(requests, [id |-> Len(requests) + 1,
                                source_text |-> text,
                                source_language |-> source_lang,
                                target_language |-> target_lang,
                                model_used |-> MODEL_NAME,
                                status |-> "pending",
                                translated_text |-> None,
                                processing_time |-> NoTime,
                                error_message |-> NoStr]),
          request_id |-> Len(requests) + 1]
    ELSE [translation_requests |-> requests, request_id |-> 0]

\* Variant of the insert that answers a failure with the newest id of the
\* table instead of 0.
create_translation_request_stale_id(requests, text, source_lang, target_lang, db_ok) ==
    IF db_ok
    THEN [translation_requests |->
              Append(requests, [id |-> Len(requests) + 1,
                                source_text |-> text,
                                source_language |-> source_lang,
                                target_language |-> target_lang,
                                model_used |-> MODEL_NAME,
                                status |-> "processing",
                                translated_text |-> None,
                                processing_time |-> NoTime,
                                error_message |-> NoStr]),
          request_id |-> Len(requests) + 1]
    ELSE [translation_requests |-> requests, request_id |-> Len(requests)]

\* _create_translation_request, lines 235-252: the new row and its id, or
\* the id 0 when the session raises.
create_translation_request(requests, text, source_lang, target_lang, db_ok) ==
    IF db_ok
    THEN [translation_requests |->
              Append(requests, [id |-> Len(requests) + 1,
                                source_text |-> text,
                                source_language |-> source_lang,
                                target_language |-> target_lang,
                                model_used |-> MODEL_NAME,
                                status |-> "processing",
                                translated_text |-> None,
                                processing_time |-> NoTime,
                                error_message |-> NoStr]),
          request_id |-> Len(requests) + 1]
    ELSE [translation_requests |-> requests, request_id |-> 0]

\* Variant of the update that writes to every row of the table.
update_translation_request_all_rows(requests, request_id, translated_text, status, processing_time, error_message, db_ok) ==
    IF ~db_ok \/ request_id \notin 1..Len(requests)
    THEN requests
    ELSE [k \in 1..Len(requests) |->
              [requests[k] EXCEPT !.translated_text = IF translated_text # None THEN translated_text ELSE @,
                                  !.status = IF status # NoStr THEN status ELSE @,
                                  !.processing_time = IF processing_time # NoTime THEN processing_time ELSE @,
                                  !.error_message = IF error_message # NoStr THEN error_message ELSE @]]

\* Variant of the update that never writes the error message.
update_translation_request_without_error(requests, request_id, translated_text, status, processing_time, error_message, db_ok) ==
    IF ~db_ok \/ request_id \notin 1..Len(requests)
    THEN requests
    ELSE [requests EXCEPT ![request_id] =
              [@ EXCEPT !.translated_text = IF translated_text # None THEN translated_text ELSE @,
                        !.status = IF status # NoStr THEN status ELSE @,
                        !.processing_time = IF processing_time # NoTime THEN processing_time ELSE @]]

\* _update_translation_request, lines 254-273: session.get finds no row for
\* an id that is not in the table; only the fields given are assigned.
update_translation_request(requests, request_id, translated_text, status, processing_time, error_message, db_ok) ==
    IF ~db_ok \/ request_id \notin 1..Len(requests)
    THEN requests
    ELSE [requests EXCEPT ![request_id] =
              [@ EXCEPT !.translated_text = IF translated_text # None THEN translated_text ELSE @,
                        !.status = IF status # NoStr THEN status ELSE @,
                        !.processing_time = IF processing_time # NoTime THEN processing_time ELSE @,
                        !.error_message = IF error_message # NoStr THEN error_message ELSE @]]

---------------------------------------------------------------------------
(* translate_text, lines 41-125, between its suspension points.  A step is *)
(* given the coroutine (its position pc and its locals) with the shared    *)
(* state it reads, and yields them as the step leaves them.                *)

\* A coroutine that has not been called yet.
NewTask(kind) ==
    [pc |-> "idle", kind |-> kind, text |-> None, target_language |-> None,
     source_language |-> None, request_id |-> 0, start_time |-> 0,
     translated_text |-> None, status |-> NoStr, error_message |-> NoStr,
     processing_time |-> NoTime, ret |-> None, steps |-> <<>>,
     cached_at |-> NoTime, raised |-> FALSE, calls |-> 0]

Machine(task) ==
    [task |-> task, memory_cache |-> memory_cache, translation_cache |-> translation_cache,
     translation_requests |-> translation_requests, generate_calls |-> generate_calls]

\* return value / raise exc
Return(task, value) == [task EXCEPT !.pc = "returned", !.ret = value]
Raise(task) == [task EXCEPT !.pc = "raised", !.raised = TRUE]
Did(task, step) == [task EXCEPT !.steps = Append(@, step)]

\* `if cached_result:`, line 71
cache_hit(cached_result) == cached_result.found

\* Lines 54-73, up to the first suspension: the input checks, the language
\* detection and the memory tier of the cache lookup (a hit returns).
translate_text_begin(m, t, text, target_language, source_language) ==
    LET task == [m.task EXCEPT !.text = text, !.target_language = target_language,
                               !.source_language = source_language,
                               !.request_id = 0, !.start_time = 0,
                               !.translated_text = None, !.status = NoStr,
                               !.error_message = NoStr, !.processing_time = NoTime,
                               !.ret = None, !.steps = <<>>,
                               !.cached_at = NoTime, !.raised = FALSE]
    IN  IF text = NonStr
        THEN [m EXCEPT !.task = Raise(task)]
        ELSE IF is_blank(text)
        THEN [m EXCEPT !.task = Return(task, text)]
        ELSE IF too_long(text)
        THEN [m EXCEPT !.task = Return(task, None)]
        ELSE LET detected == IF source_language = Auto
                             THEN Did([task EXCEPT !.source_language = detect_language(text)], "detect")
                             ELSE task
             IN  IF config.CACHE_ENABLED
                 THEN LET c == get_cached_memory(m.memory_cache, t, text, detected.source_language, target_language)
                          looked == Did(detected, "lookup")
                      IN  IF cache_hit(c.result)
                          THEN [m EXCEPT !.task = Return(looked, c.result.data.translated_text)]
                          ELSE [m EXCEPT !.task = [looked EXCEPT !.pc = "cache_get"],
                                         !.memory_cache = c.memory_cache]
                 ELSE [m EXCEPT !.task = [detected EXCEPT !.pc = "create_request"]]

\* Variant of the step in which a failure of the durable lookup reaches the
\* caller.
translate_text_cache_get_raising(m, t, db_ok) ==
    LET task == m.task
        c == get_cached_db(m.memory_cache, m.translation_cache, t, task.text, task.source_language, task.target_language, db_ok)
    IN  [m EXCEPT !.memory_cache = c.memory_cache,
                  !.translation_cache = c.translation_cache,
                  !.task = IF ~db_ok
                           THEN Raise(Did(task, "looked"))
                           ELSE IF cache_hit(c.result)
                           THEN Return(Did(task, "looked"), c.result.data.translated_text)
                           ELSE [Did(task, "looked") EXCEPT !.pc = "create_request"]]

\* Lines 68-73: the durable tier of the lookup answers.
translate_text_cache_get(m, t, db_ok) ==
    LET task == m.task
        c == get_cached_db(m.memory_cache, m.translation_cache, t, task.text, task.source_language, task.target_language, db_ok)
    IN  [m EXCEPT !.memory_cache = c.memory_cache,
                  !.translation_cache = c.translation_cache,
                  !.task = IF cache_hit(c.result)
                           THEN Return(Did(task, "looked"), c.result.data.translated_text)
                           ELSE [Did(task, "looked") EXCEPT !.pc = "create_request"]]

\* Variant of the step that posts the generation request before the ledger
\* row is written.
translate_text_dispatch_first(m, t, db_ok, has_client) ==
    LET task == m.task
        r == create_translation_request(m.translation_requests, task.text, task.source_language, task.target_language, db_ok)
        created == Did([task EXCEPT !.request_id = r.request_id, !.start_time = t], "dispatch")
    IN  [m EXCEPT !.generate_calls = @ + 1,
                  !.task = [Did(created, "create") EXCEPT !.pc = "generate"]]

\* Variant of the step with single-flight coalescing: a call joins the
\* request of a call for the same key that is still being processed.
translate_text_create_single_flight(m, t, db_ok, has_client) ==
    LET task == m.task
        r == create_translation_request(m.translation_requests, task.text, task.source_language, task.target_language, db_ok)
        pending == {k \in 1..Len(m.translation_requests) :
                       /\ m.translation_requests[k].source_text = task.text
                       /\ m.translation_requests[k].source_language = task.source_language
                       /\ m.translation_requests[k].target_language = task.target_language
                       /\ m.translation_requests[k].status = "processing"}
        created == Did([task EXCEPT !.request_id = r.request_id, !.start_time = t], "create")
    IN  IF pending # {}
        THEN [m EXCEPT !.task = [Did(Did([task EXCEPT !.request_id = Max(pending), !.start_time = t], "create"), "dispatch")
                                    EXCEPT !.pc = "generate"]]
        ELSE [m EXCEPT !.translation_requests = r.translation_requests,
                       !.generate_calls = @ + 1,
                       !.task = [Did(created, "dispatch") EXCEPT !.pc = "generate"]]

\* Lines 76-86: the ledger row is created (or not: id 0), the clock is
\* read, and _perform_translation either raises (no client: lines 228-229,
\* caught at line 115) or posts the generation request.
translate_text_create(m, t, db_ok, has_client) ==
    LET task == m.task
        r == create_translation_request(m.translation_requests, task.text, task.source_language, task.target_language, db_ok)
        created == Did([task EXCEPT !.request_id = r.request_id, !.start_time = t], "create")
    IN  IF has_client
        THEN [m EXCEPT !.translation_requests = r.translation_requests,
                       !.generate_calls = @ + 1,
                       !.task = [Did(created, "dispatch") EXCEPT !.pc = "generate"]]
        ELSE [m EXCEPT !.translation_requests = r.translation_requests,
                       !.task = [created EXCEPT !.pc = "update_request",
                                                !.status = "failed",
                                                !.processing_time = 0,
                                                !.error_message = "Ollama client not initialized"]]

\* Variant of the step that posts the generation request again when the
\* backend gave no text.
translate_text_generate_retrying(m, t, resp) ==
    LET task == Did(m.task, "response")
        translated_text == ollama_translate(resp)
    IN  IF truthy(translated_text)
        THEN [m EXCEPT !.task = [task EXCEPT !.pc = "update_request",
                                             !.translated_text = translated_text,
                                             !.status = "completed",
                                             !.processing_time = t - task.start_time]]
        ELSE [m EXCEPT !.generate_calls = @ + 1,
                       !.task = [Did(task, "dispatch") EXCEPT !.pc = "generate"]]

\* Variant of the step that tests the result with `is not None`, taking an
\* empty text for a translation.
translate_text_generate_accepting_empty(m, t, resp) ==
    LET task == Did(m.task, "response")
        translated_text == ollama_translate(resp)
    IN  [m EXCEPT !.task =
            IF translated_text # None
            THEN [task EXCEPT !.pc = "update_request",
                              !.translated_text = translated_text,
                              !.status = "completed",
                              !.processing_time = t - task.start_time]
            ELSE [task EXCEPT !.pc = "update_request",
                              !.status = "failed",
                              !.processing_time = t - task.start_time,
                              !.error_message = "Translation failed"]]

\* Lines 84-113: the backend has answered; the ledger update is issued.
translate_text_generate(m, t, resp) ==
    LET task == Did(m.task, "response")
        translated_text == ollama_translate(resp)
    IN  [m EXCEPT !.task =
            IF truthy(translated_text)
            THEN [task EXCEPT !.pc = "update_request",
                              !.translated_text = translated_text,
                              !.status = "completed",
                              !.processing_time = t - task.start_time]
            ELSE [task EXCEPT !.pc = "update_request",
                              !.status = "failed",
                              !.processing_time = t - task.start_time,
                              !.error_message = "Translation failed"]]

\* Variant of the step that also puts the outcome of a failed call into the
\* memory tier.
translate_text_update_caching_failures(m, t, db_ok) ==
    LET task == IF db_ok THEN Did(m.task, "update") ELSE Did(Did(m.task, "update"), "update_error")
        requests == update_translation_request(m.translation_requests, task.request_id, task.translated_text, task.status, task.processing_time, task.error_message, db_ok)
    IN  IF task.status = "completed"
        THEN IF config.CACHE_ENABLED
             THEN [m EXCEPT !.translation_requests = requests,
                            !.memory_cache = cache_translation_memory(@, t, task.text, task.source_language, task.target_language, task.translated_text, MODEL_NAME, NoScore),
                            !.task = [task EXCEPT !.pc = "cache_put", !.cached_at = t]]
             ELSE [m EXCEPT !.translation_requests = requests,
                            !.task = Return(task, task.translated_text)]
        ELSE [m EXCEPT !.translation_requests = requests,
                       !.memory_cache = cache_translation_memory(@, t, task.text, task.source_language, task.target_language, task.text, MODEL_NAME, NoScore),
                       !.task = Return(task, None)]

\* Lines 92-125: the ledger update is done (a persistence error is logged,
\* line 273, and leaves "update_error" in the trace).  On success the result
\* goes to the cache (memory tier at once, lines 98-115); on failure None is
\* returned.
translate_text_update(m, t, db_ok) ==
    LET task == IF db_ok THEN Did(m.task, "update") ELSE Did(Did(m.task, "update"), "update_error")
        requests == update_translation_request(m.translation_requests, task.request_id, task.translated_text, task.status, task.processing_time, task.error_message, db_ok)
    IN  IF task.status = "completed"
        THEN IF config.CACHE_ENABLED
             THEN [m EXCEPT !.translation_requests = requests,
                            !.memory_cache = cache_translation_memory(@, t, task.text, task.source_language, task.target_language, task.translated_text, MODEL_NAME, NoScore),
                            !.task = [task EXCEPT !.pc = "cache_put", !.cached_at = t]]
             ELSE [m EXCEPT !.translation_requests = requests,
                            !.task = Return(task, task.translated_text)]
        ELSE [m EXCEPT !.translation_requests = requests,
                       !.task = Return(task, None)]

\* Lines 99-105: the durable tier of cache_translation is done.
translate_text_cache_put(m, t, db_ok) ==
    LET task == Did(m.task, "store")
    IN  [m EXCEPT !.translation_cache = cache_translation_db(@, t, task.text, task.source_language, task.target_language, task.translated_text, MODEL_NAME, NoScore, db_ok),
                  !.task = Return(task, task.translated_text)]

---------------------------------------------------------------------------
(* services/translation_cache.py: clear_cache, lines 173-211 *)

\* Variant of the memory half of clear_cache that clears the whole dict
\* whatever the filters are.
clear_cache_memory_all(mem, source_lang, target_lang) == EmptyDict

\* Lines 181-192: with both languages given the keys with the prefix
\* "source:target:" are deleted; otherwise the whole dict is cleared.
clear_cache_memory(mem, source_lang, target_lang) ==
    IF truthy(source_lang) /\ truthy(target_lang)
    THEN [k \in {x \in DOMAIN mem : ~startswith(x, source_lang \o <<":">> \o target_lang \o <<":">>)} |-> mem[k]]
    ELSE EmptyDict

\* The rows the delete statement of lines 199-203 selects.
clear_cache_selected(rows, source_lang, target_lang) ==
    {r \in rows : /\ truthy(source_lang) => r.source_language = source_lang
                  /\ truthy(target_lang) => r.target_language = target_lang}

\* Lines 194-211: the delete is committed, or the exception is logged and
\* the table is left as it was.
clear_cache_db(rows, source_lang, target_lang, db_ok) ==
    IF db_ok THEN rows \ clear_cache_selected(rows, source_lang, target_lang) ELSE rows

\* clear_cache as one call.
clear_cache(mem, rows, source_lang, target_lang, db_ok) ==
    CacheState(clear_cache_memory(mem, source_lang, target_lang),
               clear_cache_db(rows, source_lang, target_lang, db_ok),
               NoEntry)

---------------------------------------------------------------------------
(* services/translation_cache.py: get_cache_stats, lines 213-248 *)

\* select(func.sum(TranslationCache.hit_count)), with `or 0` for no row
RECURSIVE sum_hit_count(_)
sum_hit_count(rows) ==
    IF rows = {} THEN 0
    ELSE LET r == CHOOSE x \in rows : TRUE
         IN  r.hit_count + sum_hit_count(rows \ {r})

\* Variant of get_cache_stats whose except branch reports zero everywhere.
get_cache_stats_all_zero(mem, rows, db_ok) ==
    IF db_ok
    THEN [database_entries |-> Cardinality(rows),
          memory_entries |-> Cardinality(DOMAIN mem),
          total_hits |-> sum_hit_count(rows),
          cache_ttl |-> config.CACHE_TTL]
    ELSE [database_entries |-> 0, memory_entries |-> 0, total_hits |-> 0,
          cache_ttl |-> config.CACHE_TTL]

\* get_cache_stats: the aggregates of the table and the size of the dict, or
\* (lines 241-248) zeros for the table when the session or a query raises.
get_cache_stats(mem, rows, db_ok) ==
    IF db_ok
    THEN [database_entries |-> Cardinality(rows),
          memory_entries |-> Cardinality(DOMAIN mem),
          total_hits |-> sum_hit_count(rows),
          cache_ttl |-> config.CACHE_TTL]
    ELSE [database_entries |-> 0,
          memory_entries |-> Cardinality(DOMAIN mem),
          total_hits |-> 0,
          cache_ttl |-> config.CACHE_TTL]

---------------------------------------------------------------------------
(* The cache service driven call by call (one caller, one call at a time) *)

\* Inputs of the cache service calls: <<text, source, target, translation,
\* db_ok>>.  The first key is driven with every input, the second one (the
\* reverse language pair) with one translation and a working database.
Translations == {<<"x">>, <<"y">>}
StoreInputs ==
    ({<<"a">>} \X {En} \X {Vi} \X Translations \X BOOLEAN)
        \cup {<< <<"a">>, Vi, En, <<"x">>, TRUE >>}
LookupInputs ==
    ({<<"a">>} \X {En} \X {Vi} \X BOOLEAN) \cup {<< <<"a">>, Vi, En, TRUE >>}

\* A row left in the table by an earlier run of the process.
OldRow == [id |-> 1, source_text |-> <<"a">>, source_language |-> En,
           target_language |-> Vi, translated_text |-> <<"x">>,
           model_used |-> MODEL_NAME, confidence_score |-> NoScore,
           hit_count |-> 1, created_at |-> 0, last_accessed |-> 0]

\* TranslationService.__init__, lines 15-18: no translator, not initialized
\* (closed: the translators whose __aexit__ the service has awaited).
NoService == [_initialized |-> FALSE, translator |-> 0, closed |-> {}]

NoTasks == [i \in {} |-> 0]
NoFanout == [state |-> "none"]

\* History kept for the properties: the call that has just returned (until
\* the next step), per key the latest cache_translation call, and the number
\* of clear_cache calls made.
NoCall == [op |-> "none"]
EmptyLog == [last |-> NoCall, stored |-> EmptyDict, clears |-> 0]

InitCache ==
    /\ now = 0
    /\ config \in [CACHE_ENABLED : BOOLEAN, CACHE_TTL : 1..MaxTTL,
                   MAX_CONCURRENT_TRANSLATIONS : {1}, MAX_TEXT_LENGTH : {MaxTextLen}]
    /\ memory_cache = EmptyDict
    /\ translation_cache \in {{}, {OldRow}}
    /\ translation_requests = <<>>
    /\ ollama_client = FALSE
    /\ generate_calls = 0
    /\ tasks = NoTasks
    /\ semaphore = 0
    /\ fanout = NoFanout
    /\ translation_service = NoService
    /\ cache_log = EmptyLog

\* Time passes.
Tick ==
    /\ now < MaxTime
    /\ now' = now + 1
    /\ cache_log' = [cache_log EXCEPT !.last = NoCall]
    /\ UNCHANGED <<config, memory_cache, translation_cache, translation_requests,
                   ollama_client, generate_calls, tasks, semaphore, fanout, translation_service>>

\* await cache_service.get_cached_translation(source_text, source_lang, target_lang)
Lookup(source_text, source_lang, target_lang, db_ok) ==
    LET c == get_cached_translation(memory_cache, translation_cache, now, source_text, source_lang, target_lang, db_ok)
        call == [op |-> "lookup", key |-> <<source_text, source_lang, target_lang>>,
                 db_ok |-> db_ok, result |-> c.result]
    IN  /\ memory_cache' = c.memory_cache
        /\ translation_cache' = c.translation_cache
        /\ cache_log' = [cache_log EXCEPT !.last = call]
        /\ UNCHANGED <<now, config, translation_requests, ollama_client,
                       generate_calls, tasks, semaphore, fanout, translation_service>>

\* await cache_service.cache_translation(source_text, source_lang, target_lang, translated_text, model_used)
Store(source_text, source_lang, target_lang, translated_text, db_ok) ==
    LET c == cache_translation(memory_cache, translation_cache, now, source_text, source_lang, target_lang, translated_text, MODEL_NAME, NoScore, db_ok)
        key == <<source_text, source_lang, target_lang>>
        call == [op |-> "store", key |-> key, translated_text |-> translated_text,
                 db_ok |-> db_ok,
                 replaced |-> IF key \in DOMAIN cache_log.stored
                              THEN cache_log.stored[key].translated_text ELSE None]
    IN  /\ memory_cache' = c.memory_cache
        /\ translation_cache' = c.translation_cache
        /\ cache_log' = [cache_log EXCEPT !.last = call,
                                          !.stored = DictSet(@, key, [at |-> now, translated_text |-> translated_text, db_ok |-> db_ok])]
        /\ UNCHANGED <<now, config, translation_requests, ollama_client,
                       generate_calls, tasks, semaphore, fanout, translation_service>>

\* The filters given to clear_cache: <<source_lang, target_lang, db_ok>>.
ClearInputs == {None, En} \X {None, Vi} \X BOOLEAN

\* await cache_service.clear_cache(source_lang, target_lang).  The keys the
\* call touched in the memory tier leave the history of the stores.
Clear(source_lang, target_lang, db_ok) ==
    LET c == clear_cache(memory_cache, translation_cache, source_lang, target_lang, db_ok)
        call == [op |-> "clear", source_lang |-> source_lang, target_lang |-> target_lang,
                 db_ok |-> db_ok]
        kept == IF truthy(source_lang) /\ truthy(target_lang)
                THEN {k \in DOMAIN cache_log.stored : k[2] # source_lang \/ k[3] # target_lang}
                ELSE {}
    IN  /\ cache_log.clears < MaxClears
        /\ memory_cache' = c.memory_cache
        /\ translation_cache' = c.translation_cache
        /\ cache_log' = [last |-> call, stored |-> [k \in kept |-> cache_log.stored[k]],
                         clears |-> cache_log.clears + 1]
        /\ UNCHANGED <<now, config, translation_requests, ollama_client,
                       generate_calls, tasks, semaphore, fanout, translation_service>>

NextCache ==
    \/ Tick
    \/ \E i \in LookupInputs : Lookup(i[1], i[2], i[3], i[4])
    \/ \E i \in StoreInputs : Store(i[1], i[2], i[3], i[4], i[5])

SpecCache == InitCache /\ [][NextCache]_vars

\* await cache_service.get_cache_stats()
Stats(db_ok) ==
    /\ cache_log' = [cache_log EXCEPT !.last =
                        [op |-> "stats", db_ok |-> db_ok,
                         result |-> get_cache_stats(memory_cache, translation_cache, db_ok)]]
    /\ UNCHANGED <<now, config, memory_cache, translation_cache, translation_requests,
                   ollama_client, generate_calls, tasks, semaphore, fanout, translation_service>>

\* The cache service with clear_cache and get_cache_stats calls among the
\* stores and lookups of one moment.
NextClear ==
    \/ \E i \in LookupInputs : Lookup(i[1], i[2], i[3], i[4])
    \/ \E i \in StoreInputs : Store(i[1], i[2], i[3], i[4], i[5])
    \/ \E i \in ClearInputs : Clear(i[1], i[2], i[3])
    \/ \E db_ok \in BOOLEAN : Stats(db_ok)

SpecClear == InitCache /\ [][NextClear]_vars

---------------------------------------------------------------------------
(* Properties of the cache service (SpecCache) *)

LastCall == cache_log.last
Stored == cache_log.stored
RowsOf(key) == select_cache(translation_cache, key[1], key[2], key[3])

\* C8: with caching enabled, a lookup made right after a store of the same
\* key (no time has passed since the latest store of that key) returns an
\* entry whose translated text is the stored text, whether or not a row
\* existed before and whether or not the durable write succeeded.
C8_StoreThenLookup ==
    (/\ config.CACHE_ENABLED
     /\ LastCall.op = "lookup"
     /\ LastCall.key \in DOMAIN Stored
     /\ Stored[LastCall.key].at = now)
    => /\ LastCall.result.found
       /\ LastCall.result.data.translated_text = Stored[LastCall.key].translated_text

\* Reached: such a lookup succeeds although the durable write of the store
\* failed (the table holds no row for the key).
C8_Witness ==
    /\ config.CACHE_ENABLED
    /\ LastCall.op = "lookup"
    /\ LastCall.key \in DOMAIN Stored
    /\ Stored[LastCall.key].at = now
    /\ RowsOf(LastCall.key) = {}
    /\ LastCall.result.found
    /\ LastCall.result.data.translated_text = Stored[LastCall.key].translated_text

StoredTwice ==
    /\ LastCall.op = "store"
    /\ LastCall.replaced # None
    /\ LastCall.replaced # LastCall.translated_text

OneRowWithLatestText ==
    /\ Cardinality(RowsOf(LastCall.key)) = 1
    /\ \A r \in RowsOf(LastCall.key) : r.translated_text = LastCall.translated_text

\* Only a step of get_cached_translation changes the hit count of a row
\* that is in the table before and after the step.
HitCountOnlyByLookup ==
    (\E r \in translation_cache : \E r2 \in translation_cache' :
         r2.id = r.id /\ r2.hit_count # r.hit_count)
    => cache_log'.last.op = "lookup"

\* C10 as stated: after two stores of one key with different texts the
\* table holds exactly one row for the key, with the latest text; and store
\* never changes a hit count.
C10_AsStated ==
    /\ [](StoredTwice => OneRowWithLatestText)
    /\ [][HitCountOnlyByLookup]_vars

\* C10 amended: the same, when caching is enabled and the durable write of
\* the second store succeeds (a failed durable write is logged and leaves
\* the table as it was; a disabled cache stores nothing).
C10_OverwriteOneRow ==
    /\ []((StoredTwice /\ config.CACHE_ENABLED /\ LastCall.db_ok) => OneRowWithLatestText)
    /\ [][HitCountOnlyByLookup]_vars

\* Reached: the second store found the row of the first and rewrote it; the
\* row had been served by a lookup before (hit count 2) and keeps that count.
C10_Witness ==
    /\ StoredTwice
    /\ config.CACHE_ENABLED
    /\ LastCall.db_ok
    /\ OneRowWithLatestText
    /\ \E r \in RowsOf(LastCall.key) : r.hit_count = 2

---------------------------------------------------------------------------
(* The coroutines.  Task 0 is a caller of translate_text; the tasks from 1 *)
(* on are the branches of a fan-out call (below).                          *)

\* Variant of the end of a branch that keeps the None of translate_text.
settle_without_fallback(task) ==
    IF task.kind = "direct" \/ task.pc \notin {"returned", "raised"}
    THEN task
    ELSE [task EXCEPT !.pc = "done"]

\* Lines 145-151 and 291-293: translate_text has returned or raised inside
\* `async with semaphore`, and the branch ends.  In translate_language the
\* result is `translated or text`; an exception leaves the branch as it is.
settle(task) ==
    IF task.kind = "direct" \/ task.pc \notin {"returned", "raised"}
    THEN task
    ELSE IF task.kind = "all" /\ task.pc = "returned"
    THEN [task EXCEPT !.pc = "done", !.ret = IF truthy(task.ret) THEN task.ret ELSE task.text]
    ELSE [task EXCEPT !.pc = "done"]

\* Variant of the release that is skipped when the body raises.
released_on_return_only(task) ==
    IF task.kind # "direct" /\ task.pc = "returned" THEN 1 ELSE 0

\* The permits `async with semaphore` gives back when its body is left.
released(task) ==
    IF task.kind # "direct" /\ task.pc \in {"returned", "raised"} THEN 1 ELSE 0

\* The step's outcome becomes the state (acquired: permits taken by the step).
Apply(i, m, acquired) ==
    /\ tasks' = [tasks EXCEPT ![i] = settle(m.task)]
    /\ semaphore' = semaphore - acquired + released(m.task)
    /\ memory_cache' = m.memory_cache
    /\ translation_cache' = m.translation_cache
    /\ translation_requests' = m.translation_requests
    /\ generate_calls' = m.generate_calls

\* async with AILocalTranslator(...) / __aenter__, lines 30-34
Enter ==
    /\ ~ollama_client
    /\ ollama_client' = TRUE
    /\ UNCHANGED <<now, config, memory_cache, translation_cache, translation_requests,
                   generate_calls, tasks, semaphore, fanout, cache_log, translation_service>>

\* await translator.translate_text(text, target_language, source_language)
Translate(i, text, target_language, source_language) ==
    /\ tasks[i].kind = "direct"
    /\ tasks[i].pc \in {"idle", "returned", "raised"}
    /\ tasks[i].calls < MaxCalls
    /\ Apply(i, translate_text_begin(Machine([tasks[i] EXCEPT !.calls = @ + 1]), now, text, target_language, source_language), 0)
    /\ UNCHANGED <<now, config, ollama_client, fanout, cache_log, translation_service>>

CacheGetDone(i, db_ok) ==
    /\ tasks[i].pc = "cache_get"
    /\ Apply(i, translate_text_cache_get(Machine(tasks[i]), now, db_ok), 0)
    /\ UNCHANGED <<now, config, ollama_client, fanout, cache_log, translation_service>>

CreateDone(i, db_ok) ==
    /\ tasks[i].pc = "create_request"
    /\ Apply(i, translate_text_create(Machine(tasks[i]), now, db_ok, ollama_client), 0)
    /\ UNCHANGED <<now, config, ollama_client, fanout, cache_log, translation_service>>

GenerateDone(i, resp) ==
    /\ tasks[i].pc = "generate"
    /\ Apply(i, translate_text_generate(Machine(tasks[i]), now, resp), 0)
    /\ UNCHANGED <<now, config, ollama_client, fanout, cache_log, translation_service>>

UpdateDone(i, db_ok) ==
    /\ tasks[i].pc = "update_request"
    /\ Apply(i, translate_text_update(Machine(tasks[i]), now, db_ok), 0)
    /\ UNCHANGED <<now, config, ollama_client, fanout, cache_log, translation_service>>

CachePutDone(i, db_ok) ==
    /\ tasks[i].pc = "cache_put"
    /\ Apply(i, translate_text_cache_put(Machine(tasks[i]), now, db_ok), 0)
    /\ UNCHANGED <<now, config, ollama_client, fanout, cache_log, translation_service>>

---------------------------------------------------------------------------
(* One caller making translate_text calls one after the other *)

Repeat(c, n) == [k \in 1..n |-> c]

\* The texts of the calls: empty, whitespace, a short text, and a text and
\* a run of blanks one character over MAX_TEXT_LENGTH.
DirectTexts ==
    {<<>>, <<" ">>, <<"a">>, Repeat("a", MaxTextLen + 1), Repeat(" ", MaxTextLen + 1)}

\* The answers of the backend.
Responses ==
    {TransportError, HttpError, Http200(<<"x">>), Http200(<<"y">>), Http200(<<" ">>)}

Init ==
    /\ now = 0
    /\ config \in [CACHE_ENABLED : BOOLEAN, CACHE_TTL : 1..MaxTTL,
                   MAX_CONCURRENT_TRANSLATIONS : {1}, MAX_TEXT_LENGTH : {MaxTextLen}]
    /\ memory_cache = EmptyDict
    /\ translation_cache \in {{}, {OldRow}}
    /\ translation_requests = <<>>
    /\ ollama_client = FALSE
    /\ generate_calls = 0
    /\ tasks = [i \in {0} |-> NewTask("direct")]
    /\ semaphore = 0
    /\ fanout = NoFanout
    /\ translation_service = NoService
    /\ cache_log = EmptyLog

Next ==
    \/ Tick
    \/ Enter
    \/ \E text \in DirectTexts, source_language \in {En, Auto} :
           Translate(0, text, Vi, source_language)
    \/ \E db_ok \in BOOLEAN : CacheGetDone(0, db_ok)
    \/ \E db_ok \in BOOLEAN : CreateDone(0, db_ok)
    \/ \E resp \in Responses : GenerateDone(0, resp)
    \/ \E db_ok \in BOOLEAN : UpdateDone(0, db_ok)
    \/ \E db_ok \in BOOLEAN : CachePutDone(0, db_ok)

Spec == Init /\ [][Next]_vars

---------------------------------------------------------------------------
(* Properties of translate_text called by one caller (Spec) *)

\* The step is a call of translate_text on task i.
Calls(i) == tasks'[i].calls = tasks[i].calls + 1

HasStep(task, step) == \E k \in 1..Len(task.steps) : task.steps[k] = step

\* A text made of whitespace only (the empty text included).
BlankText(text) == \A k \in 1..Len(text) : text[k] = " "

\* The call that has returned on task i went to the backend and returned
\* its non-empty result.
ReturnedBackendResult(i) ==
    /\ tasks[i].pc = "returned"
    /\ HasStep(tasks[i], "dispatch")
    /\ tasks[i].ret # None
    /\ tasks[i].ret # <<>>

\* C1: with caching enabled, after a translate_text call has returned the
\* backend's non-empty result x, the next call with the same text, target
\* and source - made before the stored entry is TTL old - returns x at once
\* from the cache: no backend request is issued and no ledger row is added.
C1_SecondCallFromCache ==
    [][(/\ config.CACHE_ENABLED
        /\ ReturnedBackendResult(0)
        /\ Calls(0)
        /\ tasks'[0].text = tasks[0].text
        /\ tasks'[0].target_language = tasks[0].target_language
        /\ tasks'[0].source_language = tasks[0].source_language
        /\ now - tasks[0].cached_at < config.CACHE_TTL)
       => (/\ tasks'[0].pc = "returned"
           /\ tasks'[0].ret = tasks[0].ret
           /\ ~HasStep(tasks'[0], "dispatch")
           /\ generate_calls' = generate_calls
           /\ translation_requests' = translation_requests)]_vars

\* Reached: the second call has returned "x" from the cache; one request
\* went to the backend and the ledger holds the one row of the first call.
C1_Witness ==
    /\ config.CACHE_ENABLED
    /\ tasks[0].calls = 2
    /\ tasks[0].pc = "returned"
    /\ tasks[0].ret = <<"x">>
    /\ HasStep(tasks[0], "lookup")
    /\ ~HasStep(tasks[0], "dispatch")
    /\ generate_calls = 1
    /\ Len(translation_requests) = 1
    /\ translation_requests[1].source_text = tasks[0].text
    /\ translation_requests[1].status = "completed"
    /\ translation_requests[1].translated_text = <<"x">>

\* The call returns None at once and touches nothing.
RejectedUntouched(i) ==
    /\ tasks'[i].pc = "returned"
    /\ tasks'[i].ret = None
    /\ tasks'[i].steps = <<>>
    /\ UNCHANGED <<memory_cache, translation_cache, translation_requests, generate_calls>>

\* C6 as stated: translate_text on a text longer than MAX_TEXT_LENGTH
\* returns None, creates no ledger row, makes no backend call and leaves
\* both cache tiers unchanged.
C6_AsStated ==
    [][(Calls(0) /\ Len(tasks'[0].text) > config.MAX_TEXT_LENGTH)
       => RejectedUntouched(0)]_vars

\* C6 amended: the same for a text that is not whitespace only (a run of
\* blanks is returned unchanged whatever its length: the blank test of
\* line 54 comes before the length test of line 58).
C6_OversizeRejected ==
    [][(/\ Calls(0)
        /\ Len(tasks'[0].text) > config.MAX_TEXT_LENGTH
        /\ ~BlankText(tasks'[0].text))
       => RejectedUntouched(0)]_vars

\* Reached: an oversized text was rejected on the second call, with a
\* filled cache and a ledger row left by the first.
C6_Witness ==
    /\ tasks[0].calls = 2
    /\ tasks[0].pc = "returned"
    /\ Len(tasks[0].text) > config.MAX_TEXT_LENGTH
    /\ ~BlankText(tasks[0].text)
    /\ tasks[0].ret = None
    /\ tasks[0].steps = <<>>
    /\ memory_cache # EmptyDict
    /\ translation_cache # {}
    /\ Len(translation_requests) = 1
    /\ generate_calls = 1

\* C7: translate_text on an empty or whitespace-only text returns the text
\* unchanged, with no language detection, no cache lookup or store, no
\* ledger row and no backend call.
C7_BlankPassThrough ==
    [][(Calls(0) /\ BlankText(tasks'[0].text))
       => (/\ tasks'[0].pc = "returned"
           /\ tasks'[0].ret = tasks'[0].text
           /\ tasks'[0].steps = <<>>
           /\ ~HasStep(tasks'[0], "detect")
           /\ UNCHANGED <<memory_cache, translation_cache, translation_requests, generate_calls>>)]_vars

\* Reached: a blank text passed with source 'auto' came back unchanged on
\* the second call, the source still 'auto', the filled cache untouched.
C7_Witness ==
    /\ tasks[0].calls = 2
    /\ tasks[0].pc = "returned"
    /\ tasks[0].text = <<" ">>
    /\ tasks[0].ret = <<" ">>
    /\ tasks[0].steps = <<>>
    /\ tasks[0].source_language = Auto
    /\ memory_cache # EmptyDict
    /\ generate_calls = 1

---------------------------------------------------------------------------
(* translate_to_all_languages (lines 127-167) and batch_translate (lines   *)
(* 275-310): one call, its branches as tasks 1..n, and a caller of         *)
(* translate_text (task 0) running beside it.                              *)

Branches == 1..fanout.n

\* The backend requests of a set of tasks that are awaiting their answer.
InFlight(S) == Cardinality({i \in S : tasks[i].pc = "generate"})

\* Variant of the semaphore that never makes a branch wait.
can_acquire_always(permits) == TRUE

\* asyncio.Semaphore.acquire goes through while a permit is left.
can_acquire(permits) == permits > 0

\* The tasks of the branches, each waiting for a permit.
spawn(kind, inputs) ==
    [i \in DOMAIN tasks |->
        IF i \in 1..Len(inputs)
        THEN [NewTask(kind) EXCEPT !.pc = "acquire", !.text = inputs[i].text,
                                   !.target_language = inputs[i].target_language]
        ELSE tasks[i]]

\* translate_to_all_languages(text, source_language), lines 139-157: one
\* branch per supported language (the first n of the list), a new semaphore.
StartAll(text, source_language, n) ==
    /\ fanout.state = "none"
    /\ LET inputs == [i \in 1..n |-> [text |-> text, target_language |-> SUPPORTED_LANGUAGES[i]]]
       IN  /\ fanout' = [state |-> "running", kind |-> "all", n |-> n, inputs |-> inputs,
                         source_language |-> source_language, result |-> <<>>]
           /\ tasks' = spawn("all", inputs)
    /\ semaphore' = config.MAX_CONCURRENT_TRANSLATIONS
    /\ UNCHANGED <<now, config, memory_cache, translation_cache, translation_requests,
                   ollama_client, generate_calls, cache_log, translation_service>>

\* batch_translate(texts, target_language, source_language), lines 288-299
StartBatch(texts, target_language, source_language) ==
    /\ fanout.state = "none"
    /\ LET inputs == [i \in 1..Len(texts) |-> [text |-> texts[i], target_language |-> target_language]]
       IN  /\ fanout' = [state |-> "running", kind |-> "batch", n |-> Len(texts), inputs |-> inputs,
                         source_language |-> source_language, result |-> <<>>]
           /\ tasks' = spawn("batch", inputs)
    /\ semaphore' = config.MAX_CONCURRENT_TRANSLATIONS
    /\ UNCHANGED <<now, config, memory_cache, translation_cache, translation_requests,
                   ollama_client, generate_calls, cache_log, translation_service>>

\* `async with semaphore:` is entered, lines 146-150 and 292-293.  In
\* translate_language the branch of the source language returns the text;
\* the others call translate_text, which runs to its first suspension.
BranchAcquire(i) ==
    /\ fanout.state = "running"
    /\ i \in Branches
    /\ tasks[i].pc = "acquire"
    /\ can_acquire(semaphore)
    /\ LET m == Machine(tasks[i])
       IN  IF fanout.kind = "all" /\ tasks[i].target_language = fanout.source_language
           THEN Apply(i, [m EXCEPT !.task = Return(tasks[i], tasks[i].text)], 1)
           ELSE Apply(i, translate_text_begin(m, now, tasks[i].text, tasks[i].target_language, fanout.source_language), 1)
    /\ UNCHANGED <<now, config, ollama_client, fanout, cache_log, translation_service>>

\* Variant of the batch result that drops the branches that raised, as the
\* loop of translate_to_all_languages does.
RECURSIVE batch_results_dropping(_)
batch_results_dropping(n) ==
    IF n = 0 THEN <<>>
    ELSE IF tasks[n].raised THEN batch_results_dropping(n - 1)
    ELSE Append(batch_results_dropping(n - 1), tasks[n].ret)

\* Lines 299-310: gather gives the results in the order of the tasks; an
\* exception becomes None.
batch_results(n) ==
    [i \in 1..n |-> IF tasks[i].raised THEN None ELSE tasks[i].ret]

\* Lines 157-167: the mapping of the branches that did not raise.
all_results(n) ==
    LET good == {i \in 1..n : ~tasks[i].raised}
    IN  [lang \in {tasks[i].target_language : i \in good} |->
            tasks[Max({i \in good : tasks[i].target_language = lang})].ret]

\* asyncio.gather returns once every branch is done, and the call returns.
FanoutReturn ==
    /\ fanout.state = "running"
    /\ \A i \in Branches : tasks[i].pc = "done"
    /\ fanout' = [fanout EXCEPT !.state = "returned",
                                !.result = IF fanout.kind = "batch"
                                           THEN batch_results(fanout.n)
                                           ELSE all_results(fanout.n)]
    /\ UNCHANGED <<now, config, memory_cache, translation_cache, translation_requests,
                   ollama_client, generate_calls, tasks, semaphore, cache_log, translation_service>>

\* The texts given to the fan-out calls (one of them is not a str), and the
\* batches.
BatchTexts == {<<"a">>, NonStr}
Batches == UNION {[1..n -> BatchTexts] : n \in 0..MaxBranches}

FanResponses == {HttpError, Http200(<<"x">>)}

InitFan ==
    /\ now = 0
    /\ config \in [CACHE_ENABLED : BOOLEAN, CACHE_TTL : {MaxTTL},
                   MAX_CONCURRENT_TRANSLATIONS : 1..MaxK, MAX_TEXT_LENGTH : {MaxTextLen}]
    /\ memory_cache = EmptyDict
    /\ translation_cache = {}
    /\ translation_requests = <<>>
    /\ ollama_client = TRUE
    /\ generate_calls = 0
    /\ tasks = [i \in 0..MaxBranches |-> IF i = 0 THEN NewTask("direct") ELSE NewTask("unused")]
    /\ semaphore = 0
    /\ fanout = [state |-> "none", kind |-> "none", n |-> 0, inputs |-> <<>>,
                 source_language |-> None, result |-> <<>>]
    /\ translation_service = NoService
    /\ cache_log = EmptyLog

\* One translate_text call made by another request while the fan-out runs.
DirectCall ==
    /\ tasks[0].calls = 0
    /\ Translate(0, <<"a">>, Vi, En)

NextFan ==
    \/ \E text \in BatchTexts, source_language \in {En, Auto}, n \in 0..MaxBranches :
           StartAll(text, source_language, n)
    \/ \E texts \in Batches : StartBatch(texts, Vi, En)
    \/ \E i \in 1..MaxBranches : BranchAcquire(i)
    \/ DirectCall
    \/ \E i \in 0..MaxBranches : CacheGetDone(i, TRUE)
    \/ \E i \in 0..MaxBranches : CreateDone(i, TRUE)
    \/ \E i \in 0..MaxBranches, resp \in FanResponses : GenerateDone(i, resp)
    \/ \E i \in 0..MaxBranches : UpdateDone(i, TRUE)
    \/ \E i \in 0..MaxBranches : CachePutDone(i, TRUE)
    \/ FanoutReturn

SpecFan == InitFan /\ [][NextFan]_vars

---------------------------------------------------------------------------
(* Properties of the fan-out calls, under SpecFan *)

K == config.MAX_CONCURRENT_TRANSLATIONS
AllTasks == DOMAIN tasks

\* The branches that are inside `async with semaphore`.
Holding == {i \in Branches : tasks[i].pc \notin {"acquire", "done"}}

\* C2: of the branches of one translate_to_all_languages or batch_translate
\* call, at most MAX_CONCURRENT_TRANSLATIONS await a backend answer at any
\* time.
C2_FanoutBound == InFlight(Branches) <= K

\* The limit is reached while another branch of a translate_to_all_languages
\* call still waits for a permit.
C2_Witness ==
    /\ fanout.state = "running"
    /\ fanout.kind = "all"
    /\ InFlight(Branches) = K
    /\ \E i \in Branches : tasks[i].pc = "acquire"

\* C3, as stated: over all callers of the process (the branches of the
\* fan-out and a translate_text call beside them) at most
\* MAX_CONCURRENT_TRANSLATIONS backend requests are in flight.
C3_AsStated == InFlight(AllTasks) <= K

\* C4: every branch that left `async with semaphore` gave its permit back,
\* whether translate_text returned a text, returned None or raised: while the
\* call runs the free permits are K minus the branches inside the block, and
\* when the call has returned all K permits are free.
C4_PermitsReleased ==
    /\ fanout.state = "running" => semaphore = K - Cardinality(Holding)
    /\ fanout.state = "returned" => semaphore = K

\* A batch has returned in which one branch raised and another got None from
\* a failed backend request.
C4_Witness ==
    /\ fanout.state = "returned"
    /\ fanout.kind = "batch"
    /\ semaphore = K
    /\ \E i, j \in Branches :
          /\ tasks[i].raised
          /\ ~tasks[j].raised /\ tasks[j].ret = None /\ HasStep(tasks[j], "dispatch")

\* What translate_text gave for the text of branch i, read off the ledger
\* row of the branch when the branch issued a backend request.
BranchOutcomeAt(i, value) ==
    LET text == fanout.inputs[i].text
    IN  /\ tasks[i].text = text
        /\ (text = NonStr) <=> tasks[i].raised
        /\ tasks[i].raised => value = None
        /\ ~tasks[i].raised => value = tasks[i].ret
        /\ HasStep(tasks[i], "dispatch") =>
              LET row == translation_requests[tasks[i].request_id]
              IN  /\ row.source_text = text
                  /\ row.translated_text = value
                  /\ (value = None) <=> (row.status = "failed")

\* C5: batch_translate returns a list as long as texts whose position i
\* holds what translate_text gave for texts[i], in whatever order the
\* branches ran; a branch that failed or raised leaves None at its own
\* position.
C5_BatchOrder ==
    (fanout.state = "returned" /\ fanout.kind = "batch") =>
        /\ Len(fanout.result) = Len(fanout.inputs)
        /\ \A i \in 1..Len(fanout.inputs) : BranchOutcomeAt(i, fanout.result[i])

\* The second text of a batch was dispatched first and translated, the first
\* was dispatched after it and failed: the list is [None, x].
C5_Witness ==
    /\ fanout.state = "returned"
    /\ fanout.kind = "batch"
    /\ fanout.n = 2
    /\ tasks[2].request_id = 1
    /\ tasks[1].request_id = 2
    /\ fanout.result = << None, <<"x">> >>

---------------------------------------------------------------------------
(* Properties of the ledger (translation_requests), under Spec *)

Terminal == {"completed", "failed"}

\* The calls that have a ledger update still to come for row k.
Updating(k) ==
    {i \in DOMAIN tasks : tasks[i].request_id = k /\ tasks[i].pc \in {"generate", "update_request"}}

\* C11, as stated: the status of every row changes exactly once, so a row
\* whose call is over is completed or failed.
C11_AsStated ==
    \A k \in 1..Len(translation_requests) :
        translation_requests[k].status = "processing" => Updating(k) # {}

\* C11: a row enters the ledger with status processing; afterwards its status
\* changes at most once, from processing to completed or to failed, and a
\* completed or failed row keeps its status; no row is ever pending.  (The
\* status does not change at all when the update is not persisted.)
C11_LedgerLifecycle ==
    [][/\ Len(translation_requests') >= Len(translation_requests)
       /\ \A k \in 1..Len(translation_requests) :
             LET old == translation_requests[k]
                 new == translation_requests'[k]
             IN  /\ new.id = old.id
                 /\ \/ new.status = old.status
                    \/ old.status = "processing" /\ new.status \in Terminal
                 /\ old.status \in Terminal => new = old
       /\ \A k \in (Len(translation_requests) + 1)..Len(translation_requests') :
             translation_requests'[k].status = "processing"]_vars

\* Two calls have left two rows, one completed and one failed.
C11_Witness ==
    /\ Len(translation_requests) = 2
    /\ translation_requests[1].status = "completed"
    /\ translation_requests[2].status = "failed"
    /\ tasks[0].pc = "returned"

\* The call of task i created a ledger row and has returned.
ReturnedWithRow(i) ==
    /\ tasks[i].pc = "returned"
    /\ HasStep(tasks[i], "create")
    /\ tasks[i].request_id # 0

\* The row of a returned call shows the outcome of the call.
RowShowsOutcome(i) ==
    LET row == translation_requests[tasks[i].request_id]
    IN  /\ tasks[i].ret # None =>
              /\ row.status = "completed"
              /\ row.translated_text = tasks[i].ret
              /\ row.processing_time # NoTime
        /\ tasks[i].ret = None =>
              /\ row.status = "failed"
              /\ row.error_message # NoStr
              /\ row.processing_time # NoTime

\* C12, as stated: when a call that created a ledger row returns, the row is
\* completed with the returned text, or failed with an error message when
\* the call returned None.
C12_AsStated == ReturnedWithRow(0) => RowShowsOutcome(0)

\* C12: when a call that created a ledger row returns and its ledger update
\* met no persistence error, the row is completed with the returned text, or
\* failed with an error message when the call returned None; when the update
\* met a persistence error the row is still processing.
C12_TerminalOnReturn ==
    ReturnedWithRow(0) =>
        IF HasStep(tasks[0], "update_error")
        THEN translation_requests[tasks[0].request_id].status = "processing"
        ELSE RowShowsOutcome(0)

\* The backend gave no text: the call returned None and its row is failed
\* with the message of line 111.
C12_Witness ==
    /\ ReturnedWithRow(0)
    /\ HasStep(tasks[0], "response")
    /\ ~HasStep(tasks[0], "update_error")
    /\ tasks[0].ret = None
    /\ translation_requests[tasks[0].request_id].status = "failed"
    /\ translation_requests[tasks[0].request_id].error_message = "Translation failed"

---------------------------------------------------------------------------
(* Persistence failures of the cache inside translate_text, under Spec *)

\* The key of the call of task i, and its rows, valid or not.
TaskMemKey(i) == cache_key(tasks[i].text, tasks[i].source_language, tasks[i].target_language)
TaskRows(i) ==
    select_cache(translation_cache, tasks[i].text, tasks[i].source_language, tasks[i].target_language)
ValidTaskRows(i) == {r \in TaskRows(i) : is_cache_valid_db(r, now)}

\* C23: a failure of the durable tier of the cache does not reach the caller
\* of translate_text.  The durable lookup ends in a hit that is returned or
\* in a miss - also when it failed - after which the call goes on to the
\* ledger and the backend; when the durable store is over - also when it
\* failed - the memory tier holds the translated text and the text is
\* returned.
C23_CacheFailureContained ==
    [][/\ (tasks[0].pc = "cache_get" /\ tasks'[0].pc # "cache_get") =>
             /\ ~tasks'[0].raised
             /\ \/ tasks'[0].pc = "create_request"
                \/ /\ tasks'[0].pc = "returned"
                   /\ \E r \in ValidTaskRows(0) : tasks'[0].ret = r.translated_text
       /\ (tasks[0].pc = "create_request" /\ tasks'[0].pc # "create_request" /\ ollama_client) =>
             tasks'[0].pc = "generate" /\ generate_calls' = generate_calls + 1
       /\ (tasks[0].pc = "cache_put" /\ tasks'[0].pc # "cache_put") =>
             /\ ~tasks'[0].raised
             /\ tasks'[0].pc = "returned"
             /\ tasks'[0].ret = tasks[0].translated_text
             /\ TaskMemKey(0) \in DOMAIN memory_cache'
             /\ memory_cache'[TaskMemKey(0)].translated_text = tasks[0].translated_text]_vars

\* The durable lookup failed although the table holds a valid row of the
\* key; the backend was called, the durable store failed too (the row still
\* has the old text), the memory tier has the new text and it was returned.
C23_Witness ==
    /\ tasks[0].pc = "returned"
    /\ tasks[0].steps = <<"lookup", "looked", "create", "dispatch", "response", "update", "store">>
    /\ tasks[0].ret = <<"y">>
    /\ \E r \in ValidTaskRows(0) : r.translated_text = <<"x">>
    /\ memory_cache[TaskMemKey(0)].translated_text = <<"y">>

---------------------------------------------------------------------------
(* The frame of _update_translation_request, under Spec *)

\* The step that ends the ledger update of the call.
UpdateStep == tasks[0].pc = "update_request" /\ tasks'[0].pc # "update_request"

\* The row after the update: the fields the call gave are written (status
\* and processing time always, the text on success, the message on failure),
\* the others are as before.
RowUpdated(old, new, task) ==
    /\ new.id = old.id
    /\ new.source_text = old.source_text
    /\ new.source_language = old.source_language
    /\ new.target_language = old.target_language
    /\ new.model_used = old.model_used
    /\ new.status = task.status
    /\ new.processing_time = task.processing_time
    /\ new.translated_text = IF task.translated_text # None THEN task.translated_text ELSE old.translated_text
    /\ new.error_message = IF task.error_message # NoStr THEN task.error_message ELSE old.error_message

\* C24: the ledger update writes the fields it is given to the row with the
\* given id and to nothing else: the other fields of the row and all other
\* rows are as before, and no row changes when the id is not in the table
\* (or when the update is not persisted).
C24_UpdateFrame ==
    [][UpdateStep =>
           LET id == tasks[0].request_id
           IN  /\ Len(translation_requests') = Len(translation_requests)
               /\ \A k \in 1..Len(translation_requests) :
                     k # id => translation_requests'[k] = translation_requests[k]
               /\ id \in 1..Len(translation_requests) =>
                     \/ translation_requests'[id] = translation_requests[id]
                     \/ RowUpdated(translation_requests[id], translation_requests'[id], tasks[0])
               /\ (id \in 1..Len(translation_requests) /\ ~HasStep(tasks'[0], "update_error")) =>
                     RowUpdated(translation_requests[id], translation_requests'[id], tasks[0])]_vars

\* The second call failed: its row has the status and the message and no
\* text, and the completed row of the first call is as it was.
C24_Witness ==
    /\ tasks[0].pc = "returned"
    /\ tasks[0].request_id = 2
    /\ Len(translation_requests) = 2
    /\ translation_requests[1].status = "completed"
    /\ translation_requests[1].translated_text = <<"x">>
    /\ translation_requests[1].error_message = NoStr
    /\ translation_requests[2].status = "failed"
    /\ translation_requests[2].translated_text = None
    /\ translation_requests[2].error_message = "Translation failed"

---------------------------------------------------------------------------
(* The order of the steps of one translate_text call, under Spec *)

\* The place of a step in the trace of the call (0: not taken).
Index(task, step) ==
    IF HasStep(task, step)
    THEN CHOOSE k \in 1..Len(task.steps) : task.steps[k] = step
    ELSE 0

Before(task, a, b) == Index(task, a) > 0 /\ Index(task, a) < Index(task, b)

\* C13: in one translate_text call the cache lookup (when caching is on) and
\* the ledger insert are over before the backend request is posted - the
\* row, if it was persisted, is there and processing while the request is in
\* flight; the ledger update comes after the backend's answer; the cache
\* store comes after the ledger update.
C13_StepOrder ==
    LET task == tasks[0]
    IN  /\ HasStep(task, "dispatch") =>
              /\ Before(task, "create", "dispatch")
              /\ config.CACHE_ENABLED =>
                    Before(task, "lookup", "looked") /\ Before(task, "looked", "dispatch")
        /\ task.pc = "generate" =>
              /\ HasStep(task, "dispatch")
              /\ ~HasStep(task, "response") /\ ~HasStep(task, "update") /\ ~HasStep(task, "store")
              /\ task.request_id # 0 =>
                    /\ task.request_id \in 1..Len(translation_requests)
                    /\ translation_requests[task.request_id].status = "processing"
        /\ (HasStep(task, "dispatch") /\ task.pc = "update_request") => HasStep(task, "response")
        /\ (HasStep(task, "dispatch") /\ HasStep(task, "update")) => Before(task, "response", "update")
        /\ HasStep(task, "store") => Before(task, "update", "store")
        /\ task.pc = "cache_put" => HasStep(task, "update")

\* A call went through every step: lookup, insert, request, answer, update
\* and store, and returned.
C13_Witness ==
    /\ tasks[0].pc = "returned"
    /\ tasks[0].steps = <<"lookup", "looked", "create", "dispatch", "response", "update", "store">>
    /\ tasks[0].ret = <<"x">>

---------------------------------------------------------------------------
(* Persistence failures of the ledger, under Spec *)

\* The step that ends _create_translation_request left the table as it was:
\* the insert failed.
CreateFailed ==
    /\ tasks[0].pc = "create_request"
    /\ tasks'[0].pc # "create_request"
    /\ translation_requests' = translation_requests

\* The ledger update of a call whose insert failed is over.
UpdateAfterFailedCreate ==
    /\ tasks[0].pc = "update_request"
    /\ tasks[0].request_id = 0
    /\ tasks'[0].pc # "update_request"

\* C14: when the ledger insert fails the call gets the id 0 and goes on: it
\* does not raise, the backend request is posted (when the client is there),
\* the update made with the id 0 changes no row and raises nothing, and the
\* call returns what the backend gave (None when it gave nothing).
C14_LedgerFailureHarmless ==
    [][/\ CreateFailed =>
             /\ tasks'[0].request_id = 0
             /\ ~tasks'[0].raised
             /\ ollama_client =>
                   /\ tasks'[0].pc = "generate"
                   /\ generate_calls' = generate_calls + 1
       /\ UpdateAfterFailedCreate =>
             /\ translation_requests' = translation_requests
             /\ ~tasks'[0].raised
             /\ tasks'[0].pc \in {"cache_put", "returned"}
             /\ tasks'[0].pc = "returned" => tasks'[0].ret = tasks[0].translated_text
       /\ (tasks[0].pc = "cache_put" /\ tasks[0].request_id = 0 /\ tasks'[0].pc # "cache_put") =>
             /\ tasks'[0].pc = "returned"
             /\ tasks'[0].ret = tasks[0].translated_text
             /\ translation_requests' = translation_requests]_vars

\* The insert of the second call failed; the call returned the backend's
\* text and the ledger holds only the row of the first call, unchanged.
C14_Witness ==
    /\ tasks[0].calls = 2
    /\ tasks[0].pc = "returned"
    /\ tasks[0].request_id = 0
    /\ HasStep(tasks[0], "response")
    /\ tasks[0].ret = <<"y">>
    /\ Len(translation_requests) = 1
    /\ translation_requests[1].translated_text = <<"x">>

---------------------------------------------------------------------------
(* The mapping returned by translate_to_all_languages, under SpecFan *)

\* The text of the call (every branch has it).
FanText == fanout.inputs[1].text

\* What the mapping must hold for the language of branch i, read off the
\* ledger row of the branch (when it posted a backend request) or the memory
\* tier (when it was served from the cache).
ExpectedForBranch(i) ==
    LET task == tasks[i]
        row == translation_requests[task.request_id]
    IN  IF task.target_language = fanout.source_language
        THEN FanText
        ELSE IF HasStep(task, "dispatch")
        THEN IF row.status = "completed" THEN row.translated_text ELSE FanText
        ELSE memory_cache[cache_key(task.text, task.source_language, task.target_language)].translated_text

\* C15: the mapping returned by translate_to_all_languages has an entry for
\* exactly the languages whose branch did not raise; the entry is the
\* translation of the branch when it got one, and the original text when
\* translate_text returned None, whatever happened in the other branches.
C15_BranchesIndependent ==
    (fanout.state = "returned" /\ fanout.kind = "all") =>
        /\ DOMAIN fanout.result = {tasks[i].target_language : i \in {j \in Branches : ~tasks[j].raised}}
        /\ \A i \in Branches :
              ~tasks[i].raised => fanout.result[tasks[i].target_language] = ExpectedForBranch(i)

\* One language failed at the backend and is mapped to the original text,
\* another one was translated.
C15_Witness ==
    /\ fanout.state = "returned"
    /\ fanout.kind = "all"
    /\ fanout.n = 2
    /\ HasStep(tasks[1], "dispatch")
    /\ translation_requests[tasks[1].request_id].status = "failed"
    /\ fanout.result[En] = <<"a">>
    /\ fanout.result[Vi] = <<"x">>

\* The source language of the call once resolved: the one given, or the
\* detected one when 'auto' was given.
ResolvedSource ==
    IF fanout.source_language = Auto THEN detect_language(FanText) ELSE fanout.source_language

\* C16, as stated: the branch of the language equal to the resolved source
\* language calls nothing - no lookup, no ledger row, no backend request -
\* and the mapping holds the original text for it, also when the source was
\* given as 'auto'.
C16_AsStated ==
    (fanout.kind = "all" /\ fanout.n > 0 /\ FanText # NonStr) =>
        \A i \in Branches :
            tasks[i].target_language = ResolvedSource =>
                /\ tasks[i].steps = <<>>
                /\ tasks[i].pc \in {"acquire", "done"}
                /\ fanout.state = "returned" => fanout.result[ResolvedSource] = FanText

---------------------------------------------------------------------------
(* More properties of the cache service, under SpecCache *)

\* The key of the call that has just returned, as the memory tier has it.
LastKey == cache_key(LastCall.key[1], LastCall.key[2], LastCall.key[3])

\* A lookup has just returned an entry / nothing.
LookupHit == LastCall.op = "lookup" /\ LastCall.result.found
LookupMiss == LastCall.op = "lookup" /\ ~LastCall.result.found

\* The rows of a key that are CACHE_TTL old or older.
ExpiredRows(key) == {r \in RowsOf(key) : now - r.created_at >= config.CACHE_TTL}

\* C17, as stated: a lookup returns no entry that is CACHE_TTL old or older,
\* and an expired entry of the key is gone from both tiers after a lookup
\* that returned nothing.
C17_AsStated ==
    /\ LookupHit => now - LastCall.result.data.cached_at < config.CACHE_TTL
    /\ LookupMiss =>
          /\ LastKey \notin DOMAIN memory_cache
          /\ ExpiredRows(LastCall.key) = {}

\* C17: a lookup returns no entry that is CACHE_TTL old or older; after a
\* lookup that returned nothing the memory tier does not hold the key, and
\* the table does not hold it either unless the durable tier of the lookup
\* failed.
C17_ExpiredEvicted ==
    /\ LookupHit => now - LastCall.result.data.cached_at < config.CACHE_TTL
    /\ LookupMiss =>
          /\ LastKey \notin DOMAIN memory_cache
          /\ LastCall.db_ok => RowsOf(LastCall.key) = {}

\* An entry was stored in both tiers, CACHE_TTL has passed, and the lookup
\* that has just returned found nothing and left the key in neither tier.
C17_Witness ==
    /\ config.CACHE_ENABLED
    /\ LookupMiss
    /\ LastCall.db_ok
    /\ LastCall.key \in DOMAIN Stored
    /\ now - Stored[LastCall.key].at >= config.CACHE_TTL
    /\ LastKey \notin DOMAIN memory_cache
    /\ RowsOf(LastCall.key) = {}

\* C18: with caching disabled a cache_translation call changes neither the
\* memory tier nor the table.
C18_StoreDisabledNoOp ==
    [][(~config.CACHE_ENABLED /\ cache_log'.last.op = "store") =>
           /\ memory_cache' = memory_cache
           /\ translation_cache' = translation_cache]_vars

\* With caching disabled, a store of "y" has just returned: the memory tier
\* is empty and the table still holds the old row with "x".
C18_Witness ==
    /\ ~config.CACHE_ENABLED
    /\ LastCall.op = "store"
    /\ LastCall.translated_text = <<"y">>
    /\ LastCall.db_ok
    /\ memory_cache = EmptyDict
    /\ translation_cache = {OldRow}

---------------------------------------------------------------------------
(* Properties of clear_cache, under SpecClear *)

\* The keys of the runs: <<text, source, target>>.
Keys == {<<i[1], i[2], i[3]>> : i \in StoreInputs}

MemKey(key) == cache_key(key[1], key[2], key[3])

\* A step of clear_cache, and the filters it was given.
ClearStep == cache_log'.last.op = "clear" /\ cache_log'.clears = cache_log.clears + 1
GivenSource == truthy(cache_log'.last.source_lang)
GivenTarget == truthy(cache_log'.last.target_lang)

\* The key matches the filters that were given.
Matches(key) ==
    /\ GivenSource => key[2] = cache_log'.last.source_lang
    /\ GivenTarget => key[3] = cache_log'.last.target_lang

\* What the step did to a key in each tier.
GoneFromMemory(key) == MemKey(key) \notin DOMAIN memory_cache'
KeptInMemory(key) ==
    /\ (MemKey(key) \in DOMAIN memory_cache') <=> (MemKey(key) \in DOMAIN memory_cache)
    /\ MemKey(key) \in DOMAIN memory_cache => memory_cache'[MemKey(key)] = memory_cache[MemKey(key)]
GoneFromTable(key) == select_cache(translation_cache', key[1], key[2], key[3]) = {}
KeptInTable(key) ==
    select_cache(translation_cache', key[1], key[2], key[3]) = RowsOf(key)

\* C19, as stated: clear_cache with both languages given removes the
\* entries of that pair from the memory tier and from the table and leaves
\* the entries of the other pairs as they were; with no language given it
\* empties both tiers.
C19_AsStated ==
    [][(ClearStep /\ (GivenSource <=> GivenTarget)) =>
           \A key \in Keys :
               IF Matches(key)
               THEN GoneFromMemory(key) /\ GoneFromTable(key)
               ELSE KeptInMemory(key) /\ KeptInTable(key)]_vars

\* C19: clear_cache with both languages given removes the entries of that
\* pair from the memory tier and leaves the memory entries of the other
\* pairs as they were, and with no language given it empties the memory
\* tier; the table loses the same entries when the delete is committed and
\* is left as it was when the durable tier fails.
C19_ClearPair ==
    [][(ClearStep /\ (GivenSource <=> GivenTarget)) =>
           /\ \A key \in Keys :
                  IF Matches(key) THEN GoneFromMemory(key) ELSE KeptInMemory(key)
           /\ cache_log'.last.db_ok =>
                  \A key \in Keys :
                      IF Matches(key) THEN GoneFromTable(key) ELSE KeptInTable(key)
           /\ ~cache_log'.last.db_ok => translation_cache' = translation_cache
           /\ (~GivenSource /\ cache_log'.last.db_ok) =>
                  memory_cache' = EmptyDict /\ translation_cache' = {}]_vars

\* clear_cache('en', 'vi') has just returned: the row with id 1 is gone with
\* the pair en -> vi, and the entry of vi -> en is still in both tiers.
C19_Witness ==
    /\ LastCall.op = "clear"
    /\ LastCall.source_lang = En /\ LastCall.target_lang = Vi
    /\ LastCall.db_ok
    /\ DOMAIN memory_cache = {cache_key(<<"a">>, Vi, En)}
    /\ \E r \in translation_cache :
          /\ translation_cache = {r}
          /\ r.id = 2
          /\ r.source_language = Vi /\ r.target_language = En

\* C20, as stated: clear_cache with one language given removes from the
\* memory tier the entries that match it - the keys it deletes from the
\* table - and keeps the memory entries that do not match.
C20_AsStated ==
    [][(ClearStep /\ ~(GivenSource <=> GivenTarget)) =>
           \A key \in Keys :
               IF Matches(key) THEN GoneFromMemory(key) ELSE KeptInMemory(key)]_vars

---------------------------------------------------------------------------
(* The two tiers against each other, under SpecCache *)

\* The table has a row of the key with the text of the memory entry.
Mirrored(key) ==
    \E r \in RowsOf(key) : r.translated_text = memory_cache[MemKey(key)].translated_text

---------------------------------------------------------------------------
(* OllamaClient.translate called answer by answer *)

\* A 200 answer whose body is not JSON, and one whose JSON object has no
\* 'response' key.
Http200NotJson == [kind |-> "http", status_code |-> 200, json |-> FALSE, has_response |-> FALSE, response |-> <<>>]
Http200NoField == [kind |-> "http", status_code |-> 200, json |-> TRUE, has_response |-> FALSE, response |-> <<>>]

\* The 'response' fields of the runs.
BodyChars == {" ", "\"", "x"}
Bodies == UNION {[1..n -> BodyChars] : n \in 0..MaxBodyLen}

ClientResponses ==
    {TransportError, HttpError, Http200NotJson, Http200NoField} \cup {Http200(body) : body \in Bodies}

InitClient ==
    /\ now = 0
    /\ config \in [CACHE_ENABLED : {FALSE}, CACHE_TTL : {MaxTTL},
                   MAX_CONCURRENT_TRANSLATIONS : {1}, MAX_TEXT_LENGTH : {MaxTextLen}]
    /\ memory_cache = EmptyDict
    /\ translation_cache = {}
    /\ translation_requests = <<>>
    /\ ollama_client = TRUE
    /\ generate_calls = 0
    /\ tasks = NoTasks
    /\ semaphore = 0
    /\ fanout = NoFanout
    /\ translation_service = NoService
    /\ cache_log = EmptyLog

\* await ollama_client.translate(...): the request is posted and answered.
ClientTranslate(resp) ==
    /\ cache_log' = [cache_log EXCEPT !.last =
                        [op |-> "translate", resp |-> resp, result |-> ollama_translate(resp)]]
    /\ UNCHANGED <<now, config, memory_cache, translation_cache, translation_requests,
                   ollama_client, generate_calls, tasks, semaphore, fanout, translation_service>>

NextClient == \E resp \in ClientResponses : ClientTranslate(resp)

SpecClient == InitClient /\ [][NextClient]_vars

\* The answer is a transport error, a status other than 200, or a payload
\* that is not JSON or lacks the 'response' field.
BadAnswer(resp) ==
    \/ resp.kind = "error"
    \/ resp.status_code # 200
    \/ ~resp.json
    \/ ~resp.has_response

\* C22, as stated: OllamaClient.translate gives None for every transport
\* error, every status other than 200 and every malformed payload, a 200
\* answer without 'response' field included.
C22_AsStated ==
    (LastCall.op = "translate" /\ BadAnswer(LastCall.resp)) => LastCall.result = None

---------------------------------------------------------------------------
(* Properties of get_cache_stats, under SpecClear *)

\* The hit counts of the table added up row by row, in the order of the ids.
RECURSIVE HitsUpTo(_)
HitsUpTo(id) ==
    IF id = 0 THEN 0
    ELSE HitsUpTo(id - 1) +
         (IF \E r \in translation_cache : r.id = id
          THEN (CHOOSE r \in translation_cache : r.id = id).hit_count
          ELSE 0)

\* C21: get_cache_stats returns (it does not raise) and changes neither
\* tier; with the table available it reports the number of rows and the sum
\* of their hit counts (0 for no row); when the durable tier fails it
\* reports 0 for both; in either case it reports the size of the memory dict.
C21_StatsDegrade ==
    [][cache_log'.last.op = "stats" =>
           LET result == cache_log'.last.result
           IN  /\ memory_cache' = memory_cache
               /\ translation_cache' = translation_cache
               /\ result.memory_entries = Cardinality(DOMAIN memory_cache)
               /\ cache_log'.last.db_ok =>
                     /\ result.database_entries = Cardinality(translation_cache)
                     /\ result.total_hits = HitsUpTo(next_id(translation_cache))
                     /\ translation_cache = {} => result.total_hits = 0
               /\ ~cache_log'.last.db_ok =>
                     /\ result.database_entries = 0
                     /\ result.total_hits = 0]_vars

\* The durable tier failed while both tiers hold entries: zeros for the
\* table, the true size for the memory tier.
C21_Witness ==
    /\ LastCall.op = "stats"
    /\ ~LastCall.db_ok
    /\ translation_cache # {}
    /\ Cardinality(DOMAIN memory_cache) = 2
    /\ LastCall.result.memory_entries = 2
    /\ LastCall.result.database_entries = 0
    /\ LastCall.result.total_hits = 0

---------------------------------------------------------------------------
(* What one lookup and one store change, under SpecCache *)

\* The call that returns in the step, and whether its lookup is answered
\* by the memory tier as the step finds it.
CallDone == cache_log'.last
ServedFromMemory ==
    get_cached_memory(memory_cache, now, CallDone.key[1], CallDone.key[2], CallDone.key[3]).result.found

\* The step replaces row r by its refreshed copy and puts that copy into
\* the memory tier.
RowRefreshed(r) ==
    LET hit == [r EXCEPT !.hit_count = @ + 1, !.last_accessed = now]
    IN  /\ translation_cache' = (translation_cache \ {r}) \cup {hit}
        /\ memory_cache' = DictSet(memory_cache, MemKey(CallDone.key),
                                   [translated_text |-> hit.translated_text,
                                    model_used |-> hit.model_used,
                                    confidence_score |-> hit.confidence_score,
                                    cached_at |-> hit.created_at,
                                    hit_count |-> hit.hit_count])
        /\ CallDone.result.data = memory_cache'[MemKey(CallDone.key)]

\* C29: a lookup served from the durable tier adds exactly one to the hit
\* count of that row, sets its last_accessed to the time of the call, leaves
\* every other row as it was, and puts the refreshed entry into the memory
\* tier; a lookup served from the memory tier changes no row, no hit count
\* and no memory entry.
C29_LookupHit ==
    [][(CallDone.op = "lookup" /\ CallDone.result.found) =>
          IF ServedFromMemory
          THEN UNCHANGED <<translation_cache, memory_cache>>
          ELSE \E r \in RowsOf(CallDone.key) : RowRefreshed(r)]_vars

\* Reached: a row was served from the table (its hit count went from 1 to
\* 2, and the memory tier got the refreshed entry), and a later lookup is
\* served from the memory tier and leaves the row as the first one left it.
C29_Witness ==
    /\ LookupHit
    /\ LastCall.result.data.hit_count = 2
    /\ \A r \in RowsOf(LastCall.key) : r.hit_count = 2 /\ r.last_accessed < now
    /\ RowsOf(LastCall.key) # {}
    /\ memory_cache[MemKey(LastCall.key)] = LastCall.result.data

\* The memory entry cache_translation leaves for the key.
MemoryReplaced ==
    /\ MemKey(CallDone.key) \in DOMAIN memory_cache'
    /\ memory_cache'[MemKey(CallDone.key)] =
           [translated_text |-> CallDone.translated_text, model_used |-> MODEL_NAME,
            confidence_score |-> NoScore, cached_at |-> now, hit_count |-> 1]

\* The row of the key gets the new text, model, confidence and
\* last_accessed and keeps the rest; or, when there was none, one row with
\* hit count 1 is added.
RowWritten ==
    IF RowsOf(CallDone.key) = {}
    THEN \E r \in translation_cache' :
            /\ translation_cache' = translation_cache \cup {r}
            /\ r \notin translation_cache
            /\ <<r.source_text, r.source_language, r.target_language>> = CallDone.key
            /\ r.translated_text = CallDone.translated_text
            /\ r.hit_count = 1
    ELSE \E r \in RowsOf(CallDone.key) :
            translation_cache' = (translation_cache \ {r}) \cup
                {[r EXCEPT !.translated_text = CallDone.translated_text,
                           !.model_used = MODEL_NAME,
                           !.confidence_score = NoScore,
                           !.last_accessed = now]}

\* C30 as stated: every store replaces the memory entry of the key and
\* writes the row of the key.
C30_AsStated ==
    [][CallDone.op = "store" => (MemoryReplaced /\ RowWritten)]_vars

\* C30 amended: with caching enabled, store replaces the memory entry of
\* the key by one with cached_at = now and hit count 1; when the durable
\* write succeeds it updates text, model, confidence and last_accessed of
\* the existing row, leaving created_at and hit_count, or inserts one row
\* with hit count 1 when there is none; when the durable write fails the
\* table is unchanged; with caching disabled nothing changes.
C30_StoreFrame ==
    [][CallDone.op = "store" =>
          IF config.CACHE_ENABLED
          THEN /\ MemoryReplaced
               /\ IF CallDone.db_ok THEN RowWritten ELSE UNCHANGED translation_cache
          ELSE UNCHANGED <<translation_cache, memory_cache>>]_vars

\* Reached: a store at a later time on a row that has been served once
\* (hit count 2): the row has the new text and last_accessed, its old
\* creation time and hit count, and the memory entry is a new one.
C30_Witness ==
    /\ config.CACHE_ENABLED
    /\ LastCall.op = "store"
    /\ LastCall.db_ok
    /\ LastCall.translated_text = <<"y">>
    /\ Cardinality(RowsOf(LastCall.key)) = 1
    /\ \A r \in RowsOf(LastCall.key) :
          /\ r.translated_text = <<"y">>
          /\ r.hit_count = 2
          /\ r.created_at < now
          /\ r.last_accessed = now
    /\ memory_cache[MemKey(LastCall.key)].cached_at = now
    /\ memory_cache[MemKey(LastCall.key)].hit_count = 1

---------------------------------------------------------------------------
(* Concurrent translate_text calls for one key, under SpecFan *)

\* The calls that have posted a generation request.
Dispatched == {i \in AllTasks : HasStep(tasks[i], "dispatch")}

\* C27: calls are never coalesced.  Every translate_text call that went
\* past the cache has a ledger row of its own and has posted a generation
\* request of its own, also while another call for the same key is in
\* flight: the requests posted are as many as the calls that dispatched, and
\* no two of these calls share a ledger row.
C27_NoSingleFlight ==
    /\ generate_calls = Cardinality(Dispatched)
    /\ \A i \in Dispatched : tasks[i].request_id \in 1..Len(translation_requests)
    /\ \A i, j \in Dispatched : i # j => tasks[i].request_id # tasks[j].request_id

\* Reached: two calls for one key have both missed both tiers of the cache
\* and both await the backend, each with its own ledger row.
C27_Witness ==
    \E i, j \in AllTasks :
        /\ i # j
        /\ TaskMemKey(i) = TaskMemKey(j)
        /\ tasks[i].pc = "generate" /\ tasks[j].pc = "generate"
        /\ HasStep(tasks[i], "looked") /\ HasStep(tasks[j], "looked")
        /\ tasks[i].request_id # tasks[j].request_id
        /\ translation_requests[tasks[i].request_id].status = "processing"
        /\ translation_requests[tasks[j].request_id].status = "processing"
        /\ translation_requests[tasks[i].request_id].source_text = tasks[i].text
        /\ translation_requests[tasks[j].request_id].source_text = tasks[j].text
        /\ generate_calls = 2

---------------------------------------------------------------------------
(* Calls of one cache service that overlap at their suspension points *)

\* The coroutines running a call of the cache service, and the key they
\* all work on.
MaxRacers == 2
Racers == 1..MaxRacers
RaceKey == << <<"a">>, En, Vi >>

\* A coroutine that has not called yet, and one whose call has returned.
IdleRacer == [pc |-> "idle", op |-> "none", translated_text |-> None,
              plan |-> "none", cache_entry |-> NoEntry, result |-> NoEntry]
Returned(racer, result) == [racer EXCEPT !.pc = "done", !.result = result]

\* The stores whose call has returned, in the order of their return.
Completed == cache_log.completed

InitRace ==
    /\ now = 0
    /\ config \in [CACHE_ENABLED : {TRUE}, CACHE_TTL : {MaxTTL},
                   MAX_CONCURRENT_TRANSLATIONS : {1}, MAX_TEXT_LENGTH : {MaxTextLen}]
    /\ memory_cache = EmptyDict
    /\ translation_cache \in {{}, {OldRow}}
    /\ translation_requests = <<>>
    /\ ollama_client = FALSE
    /\ generate_calls = 0
    /\ tasks = [p \in Racers |-> IdleRacer]
    /\ semaphore = 0
    /\ fanout = NoFanout
    /\ translation_service = NoService
    /\ cache_log = [last |-> NoCall, stored |-> EmptyDict, clears |-> 0, completed |-> <<>>]

\* get_cached_translation up to its first suspension point (lines 33-46):
\* the memory tier is read, and a valid entry is returned at once.
RaceLookup(p) ==
    LET m == get_cached_memory(memory_cache, now, RaceKey[1], RaceKey[2], RaceKey[3])
    IN  /\ tasks[p].pc = "idle"
        /\ memory_cache' = m.memory_cache
        /\ tasks' = [tasks EXCEPT ![p] =
                        IF m.result.found
                        THEN Returned([@ EXCEPT !.op = "lookup"], m.result)
                        ELSE [@ EXCEPT !.pc = "select", !.op = "lookup"]]
        /\ UNCHANGED <<now, config, translation_cache, translation_requests,
                       ollama_client, generate_calls, semaphore, fanout, cache_log, translation_service>>

\* cache_translation up to its first suspension point (lines 102-119): the
\* memory tier is written before the session is opened.
RaceStore(p, translated_text) ==
    /\ tasks[p].pc = "idle"
    /\ IF ~config.CACHE_ENABLED
       THEN /\ tasks' = [tasks EXCEPT ![p] = Returned([@ EXCEPT !.op = "store", !.translated_text = translated_text], NoEntry)]
            /\ cache_log' = [cache_log EXCEPT !.completed = Append(@, translated_text)]
            /\ UNCHANGED memory_cache
       ELSE /\ memory_cache' = cache_translation_memory(memory_cache, now, RaceKey[1], RaceKey[2], RaceKey[3], translated_text, MODEL_NAME, NoScore)
            /\ tasks' = [tasks EXCEPT ![p] = [@ EXCEPT !.pc = "select", !.op = "store",
                                                       !.translated_text = translated_text]]
            /\ UNCHANGED cache_log
    /\ UNCHANGED <<now, config, translation_cache, translation_requests,
                   ollama_client, generate_calls, semaphore, fanout, translation_service>>

\* await session.execute(select(...)) returns, and the coroutine runs to
\* its next await, the commit: lines 49-64 and 80-81 of the lookup, lines
\* 123-142 and 146-150 of the store.  The row object is the coroutine's own
\* copy (cache_entry / existing); the changes reach the table at the commit.
\* More than one matching row makes scalar_one_or_none() raise, which ends
\* the call in its except clause.
RaceSelect(p) ==
    LET found == select_cache(translation_cache, RaceKey[1], RaceKey[2], RaceKey[3])
        row == CHOOSE r \in found : TRUE
        racer == tasks[p]
    IN  /\ racer.pc = "select"
        /\ IF racer.op = "lookup"
           THEN /\ tasks' = [tasks EXCEPT ![p] =
                       IF Cardinality(found) # 1
                       THEN Returned(racer, NoEntry)
                       ELSE IF is_cache_valid_db(row, now)
                       THEN [racer EXCEPT !.pc = "commit", !.plan = "hit",
                                          !.cache_entry = [row EXCEPT !.hit_count = @ + 1,
                                                                      !.last_accessed = now]]
                       ELSE [racer EXCEPT !.pc = "commit", !.plan = "delete",
                                          !.cache_entry = row]]
                /\ UNCHANGED cache_log
           ELSE /\ tasks' = [tasks EXCEPT ![p] =
                       IF Cardinality(found) > 1
                       THEN Returned(racer, NoEntry)
                       ELSE IF found = {}
                       THEN [racer EXCEPT !.pc = "commit", !.plan = "insert"]
                       ELSE [racer EXCEPT !.pc = "commit", !.plan = "update",
                                          !.cache_entry = [row EXCEPT !.translated_text = racer.translated_text,
                                                                      !.model_used = MODEL_NAME,
                                                                      !.confidence_score = NoScore,
                                                                      !.last_accessed = now]]]
                /\ cache_log' = IF Cardinality(found) > 1
                                THEN [cache_log EXCEPT !.completed = Append(@, racer.translated_text)]
                                ELSE cache_log
        /\ UNCHANGED <<now, config, memory_cache, translation_cache, translation_requests,
                       ollama_client, generate_calls, semaphore, fanout, translation_service>>

\* The row of the table the coroutine's copy was read from, if it is still
\* there.
RowOf(cache_entry) == {r \in translation_cache : r.id = cache_entry.id}

\* await session.commit() returns, and the call runs to its end.  A lookup
\* hit writes hit_count and last_accessed of its copy to the row (the
\* attributes it changed) and then fills the memory tier from its copy
\* (lines 64-77; the session is made with expire_on_commit=False, so the
\* copy is not read again).  A store writes the four attributes it set, or
\* inserts its new row (lines 133-150).  An UPDATE that matches no row
\* raises, which ends the call in its except clause.
RaceCommit(p) ==
    LET racer == tasks[p]
        e == racer.cache_entry
        cached_data == [translated_text |-> e.translated_text,
                        model_used |-> e.model_used,
                        confidence_score |-> e.confidence_score,
                        cached_at |-> e.created_at,
                        hit_count |-> e.hit_count]
        new == [id |-> next_id(translation_cache),
                source_text |-> RaceKey[1],
                source_language |-> RaceKey[2],
                target_language |-> RaceKey[3],
                translated_text |-> racer.translated_text,
                model_used |-> MODEL_NAME,
                confidence_score |-> NoScore,
                hit_count |-> 1,
                created_at |-> now,
                last_accessed |-> now]
    IN  /\ racer.pc = "commit"
        /\ CASE racer.plan = "hit" ->
                  IF RowOf(e) = {}
                  THEN /\ tasks' = [tasks EXCEPT ![p] = Returned(racer, NoEntry)]
                       /\ UNCHANGED <<memory_cache, translation_cache>>
                  ELSE /\ translation_cache' =
                              (translation_cache \ RowOf(e)) \cup
                              {[r EXCEPT !.hit_count = e.hit_count,
                                         !.last_accessed = e.last_accessed] : r \in RowOf(e)}
                       /\ memory_cache' = DictSet(memory_cache, MemKey(RaceKey), cached_data)
                       /\ tasks' = [tasks EXCEPT ![p] =
                                       Returned(racer, [found |-> TRUE, data |-> cached_data])]
             [] racer.plan = "delete" ->
                  /\ translation_cache' = translation_cache \ RowOf(e)
                  /\ tasks' = [tasks EXCEPT ![p] = Returned(racer, NoEntry)]
                  /\ UNCHANGED memory_cache
             [] racer.plan = "insert" ->
                  /\ translation_cache' = translation_cache \cup {new}
                  /\ tasks' = [tasks EXCEPT ![p] = Returned(racer, NoEntry)]
                  /\ UNCHANGED memory_cache
             [] racer.plan = "update" ->
                  /\ translation_cache' =
                         (translation_cache \ RowOf(e)) \cup
                         {[r EXCEPT !.translated_text = e.translated_text,
                                    !.model_used = e.model_used,
                                    !.confidence_score = e.confidence_score,
                                    !.last_accessed = e.last_accessed] : r \in RowOf(e)}
                  /\ tasks' = [tasks EXCEPT ![p] = Returned(racer, NoEntry)]
                  /\ UNCHANGED memory_cache
        /\ cache_log' = IF racer.op = "store"
                        THEN [cache_log EXCEPT !.completed = Append(@, racer.translated_text)]
                        ELSE cache_log
        /\ UNCHANGED <<now, config, translation_requests, ollama_client,
                       generate_calls, semaphore, fanout, translation_service>>

NextRace ==
    \/ \E p \in Racers : RaceLookup(p)
    \/ \E p \in Racers : \E translated_text \in Translations : RaceStore(p, translated_text)
    \/ \E p \in Racers : RaceSelect(p)
    \/ \E p \in Racers : RaceCommit(p)

SpecRace == InitRace /\ [][NextRace]_vars

\* Every call made has returned, and a store is among them.
RaceOver ==
    /\ \A p \in Racers : tasks[p].pc \in {"idle", "done"}
    /\ Completed # <<>>

LastCompleted == Completed[Len(Completed)]

BothTiersHold(translated_text) ==
    /\ MemKey(RaceKey) \in DOMAIN memory_cache
    /\ memory_cache[MemKey(RaceKey)].translated_text = translated_text
    /\ RowsOf(RaceKey) # {}
    /\ \A r \in RowsOf(RaceKey) : r.translated_text = translated_text

\* What a lookup of the key made now, alone, would return.
LaterLookup ==
    get_cached_translation(memory_cache, translation_cache, now, RaceKey[1], RaceKey[2], RaceKey[3], TRUE).result

\* C26 as stated: once the overlapping calls on a key have all returned,
\* both tiers hold the text of the store that returned last, and a lookup
\* made afterwards returns no other text.
C26_AsStated ==
    RaceOver =>
        /\ BothTiersHold(LastCompleted)
        /\ LaterLookup.found => LaterLookup.data.translated_text = LastCompleted

\* A lookup that read the row before a store of another text, and committed
\* after it, has put the old text back into the memory tier.
C26_StaleAfterLookup ==
    /\ RaceOver
    /\ Len(Completed) = 1
    /\ \E p \in Racers : tasks[p].op = "lookup" /\ tasks[p].result.found
    /\ \A r \in RowsOf(RaceKey) : r.translated_text = LastCompleted
    /\ LaterLookup.found
    /\ LaterLookup.data.translated_text # LastCompleted

\* Two stores on an existing row: the memory tier keeps the text of the one
\* that was called last, the row the text of the one that committed last.
C26_StaleAfterStores ==
    /\ RaceOver
    /\ Len(Completed) = 2
    /\ Cardinality(RowsOf(RaceKey)) = 1
    /\ \A r \in RowsOf(RaceKey) : r.translated_text = LastCompleted
    /\ LaterLookup.found
    /\ LaterLookup.data.translated_text = Completed[1]
    /\ Completed[1] # LastCompleted

---------------------------------------------------------------------------
(* Several cache service instances in one process *)

\* Every AILocalTranslator makes its own TranslationCacheService
\* (ai_translator.py line 21), and every TranslationCacheService its own
\* dictionary (translation_cache.py line 17); all of them use the one table.
\* In this specification memory_cache[s] is the memory_cache attribute of
\* instance s.
MaxInstances == 2
Instances == 1..MaxInstances

InitInstances ==
    /\ now = 0
    /\ config \in [CACHE_ENABLED : {TRUE}, CACHE_TTL : {MaxTTL},
                   MAX_CONCURRENT_TRANSLATIONS : {1}, MAX_TEXT_LENGTH : {MaxTextLen}]
    /\ memory_cache = [s \in Instances |-> EmptyDict]
    /\ translation_cache \in {{}, {OldRow}}
    /\ translation_requests = <<>>
    /\ ollama_client = FALSE
    /\ generate_calls = 0
    /\ tasks = NoTasks
    /\ semaphore = 0
    /\ fanout = NoFanout
    /\ translation_service = NoService
    /\ cache_log = EmptyLog

\* await instance.get_cached_translation(source_text, source_lang, target_lang)
InstanceLookup(s, source_text, source_lang, target_lang, db_ok) ==
    LET c == get_cached_translation(memory_cache[s], translation_cache, now, source_text, source_lang, target_lang, db_ok)
        call == [op |-> "lookup", instance |-> s, key |-> <<source_text, source_lang, target_lang>>,
                 db_ok |-> db_ok, result |-> c.result]
    IN  /\ memory_cache' = [memory_cache EXCEPT ![s] = c.memory_cache]
        /\ translation_cache' = c.translation_cache
        /\ cache_log' = [cache_log EXCEPT !.last = call]
        /\ UNCHANGED <<now, config, translation_requests, ollama_client,
                       generate_calls, tasks, semaphore, fanout, translation_service>>

\* await instance.cache_translation(source_text, source_lang, target_lang, translated_text, model_used)
InstanceStore(s, source_text, source_lang, target_lang, translated_text, db_ok) ==
    LET c == cache_translation(memory_cache[s], translation_cache, now, source_text, source_lang, target_lang, translated_text, MODEL_NAME, NoScore, db_ok)
        key == <<source_text, source_lang, target_lang>>
        call == [op |-> "store", instance |-> s, key |-> key, translated_text |-> translated_text,
                 db_ok |-> db_ok]
    IN  /\ memory_cache' = [memory_cache EXCEPT ![s] = c.memory_cache]
        /\ translation_cache' = c.translation_cache
        /\ cache_log' = [cache_log EXCEPT !.last = call,
                                          !.stored = DictSet(@, key, [at |-> now, translated_text |-> translated_text, db_ok |-> db_ok, instance |-> s])]
        /\ UNCHANGED <<now, config, translation_requests, ollama_client,
                       generate_calls, tasks, semaphore, fanout, translation_service>>

\* The calls are made one at a time, all for one key, and the table always
\* answers.
NextInstances ==
    \/ \E s \in Instances :
           InstanceLookup(s, RaceKey[1], RaceKey[2], RaceKey[3], TRUE)
    \/ \E s \in Instances, translated_text \in Translations :
           InstanceStore(s, RaceKey[1], RaceKey[2], RaceKey[3], translated_text, TRUE)

SpecInstances == InitInstances /\ [][NextInstances]_vars

\* C28 as stated: the memory tier is shared by the instances.  A lookup of
\* a key that has been stored, through whatever instance, finds an entry,
\* and the entry has the text of the latest store of the key.
C28_AsStated ==
    (LastCall.op = "lookup" /\ LastCall.key \in DOMAIN Stored)
    => /\ LastCall.result.found
       /\ LastCall.result.data.translated_text = Stored[LastCall.key].translated_text

\* A lookup through an instance returns the text that was overwritten
\* through another instance, while the table holds the new text.
C28_OldTextServed ==
    /\ LastCall.op = "lookup"
    /\ LastCall.key \in DOMAIN Stored
    /\ Stored[LastCall.key].instance # LastCall.instance
    /\ LastCall.result.found
    /\ LastCall.result.data.translated_text # Stored[LastCall.key].translated_text
    /\ \A r \in RowsOf(LastCall.key) : r.translated_text = Stored[LastCall.key].translated_text
    /\ Cardinality({s \in Instances : MemKey(LastCall.key) \in DOMAIN memory_cache[s]}) = MaxInstances

---------------------------------------------------------------------------
(* The cache service driven with keys that are close to each other *)

\* Triples <<text, source, target>>: a text, the same text in another case
\* and with a trailing blank, and two triples whose parts contain ':' and
\* differ in where the text begins.
KeyTriples ==
    { << <<"a">>, En, Vi >>,
      << <<"A">>, En, Vi >>,
      << <<"a", " ">>, En, Vi >>,
      << <<"v", ":", "a">>, <<"e">>, <<"n">> >>,
      << <<"a">>, <<"e">>, <<"n", ":", "v">> >> }

InitKeys ==
    /\ now = 0
    /\ config \in [CACHE_ENABLED : {TRUE}, CACHE_TTL : {MaxTTL},
                   MAX_CONCURRENT_TRANSLATIONS : {1}, MAX_TEXT_LENGTH : {MaxTextLen}]
    /\ memory_cache = EmptyDict
    /\ translation_cache = {}
    /\ translation_requests = <<>>
    /\ ollama_client = FALSE
    /\ generate_calls = 0
    /\ tasks = NoTasks
    /\ semaphore = 0
    /\ fanout = NoFanout
    /\ translation_service = NoService
    /\ cache_log = EmptyLog

\* The calls are made one at a time, each triple is stored with a text of
\* its own, and the table always answers.
TextOf(key) == IF key[1] = <<"a">> /\ key[2] = En THEN <<"x">> ELSE key[1]

NextKeys ==
    \/ \E k \in KeyTriples : Lookup(k[1], k[2], k[3], TRUE)
    \/ \E k \in KeyTriples : Store(k[1], k[2], k[3], TextOf(k), TRUE)

SpecKeys == InitKeys /\ [][NextKeys]_vars

\* C31 as stated: a lookup returns nothing but what was stored under its
\* own triple <<text, source language, target language>>.
C31_AsStated ==
    LookupHit =>
        /\ LastCall.key \in DOMAIN Stored
        /\ LastCall.result.data.translated_text = Stored[LastCall.key].translated_text

\* A lookup of a triple that was never stored is answered from the memory
\* tier with the text of another triple that has the same f-string key.
C31_OtherTripleServed ==
    /\ LookupHit
    /\ LastCall.key \notin DOMAIN Stored
    /\ RowsOf(LastCall.key) = {}
    /\ \E k \in DOMAIN Stored :
          /\ k # LastCall.key
          /\ MemKey(k) = MemKey(LastCall.key)
          /\ LastCall.result.data.translated_text = Stored[k].translated_text

\* The same statement for the triples without ':' in their parts.
C31_WithoutSeparator ==
    (LookupHit /\ LastCall.key[2] = En) =>
        /\ LastCall.key \in DOMAIN Stored
        /\ LastCall.result.data.translated_text = Stored[LastCall.key].translated_text

---------------------------------------------------------------------------
(* The backend requests of a translate_text call, under Spec *)

CountStep(task, step) == Cardinality({k \in 1..Len(task.steps) : task.steps[k] = step})

\* The call on task i went past the cache and past _perform_translation.
PastDispatch(i) ==
    /\ HasStep(tasks[i], "create")
    /\ tasks[i].pc # "create_request"

NoClientMessage == "Ollama client not initialized"

\* A step posts at most one generation request, and posts it on leaving
\* the ledger insert; an answer of the backend, whatever it is, takes the
\* call to its ledger update and posts nothing.
OneRequestPerStep ==
    /\ generate_calls' \in {generate_calls, generate_calls + 1}
    /\ generate_calls' # generate_calls =>
           \E i \in DOMAIN tasks : tasks[i].pc = "create_request" /\ tasks'[i].pc = "generate"
    /\ \A i \in DOMAIN tasks :
           (tasks[i].pc = "generate" /\ tasks'[i] # tasks[i]) =>
               /\ tasks'[i].pc = "update_request"
               /\ generate_calls' = generate_calls

\* C32 as stated: every translate_text call that went past the cache has
\* posted exactly one generation request, whether the request failed or
\* not, and no step posts a request again after an answer.
C32_AsStated ==
    /\ [](\A i \in DOMAIN tasks : PastDispatch(i) => CountStep(tasks[i], "dispatch") = 1)
    /\ [][OneRequestPerStep]_vars

\* C32 amended: the same for a translator whose client has been opened; a
\* call on a translator without client posts no request at all (it fails
\* with "Ollama client not initialized").
C32_SingleAttempt ==
    /\ [](\A i \in DOMAIN tasks :
            PastDispatch(i) =>
                /\ CountStep(tasks[i], "dispatch") =
                       (IF tasks[i].error_message = NoClientMessage THEN 0 ELSE 1)
                /\ CountStep(tasks[i], "response") <= CountStep(tasks[i], "dispatch"))
    /\ [][OneRequestPerStep]_vars

\* Reached: the first call got an error from the backend and has returned
\* None; one request was posted for it.
C32_Witness ==
    /\ tasks[0].pc = "returned"
    /\ tasks[0].calls = 1
    /\ tasks[0].ret = None
    /\ tasks[0].error_message = "Translation failed"
    /\ CountStep(tasks[0], "dispatch") = 1
    /\ CountStep(tasks[0], "response") = 1
    /\ generate_calls = 1

---------------------------------------------------------------------------
(* One caller, with the cache tiers as each call found them *)

\* No answer of the backend yet.
NoAnswer == [kind |-> "none"]

\* await translator.translate_text(text, target_language, source_language),
\* with the two tiers at the moment of the call kept in the history.
TranslateLogged(i, text, target_language, source_language) ==
    /\ tasks[i].kind = "direct"
    /\ tasks[i].pc \in {"idle", "returned", "raised"}
    /\ tasks[i].calls < MaxCalls
    /\ Apply(i, translate_text_begin(Machine([tasks[i] EXCEPT !.calls = @ + 1]), now, text, target_language, source_language), 0)
    /\ cache_log' = [cache_log EXCEPT !.at_call = [memory_cache |-> memory_cache,
                                                   translation_cache |-> translation_cache],
                                      !.answer = NoAnswer]
    /\ UNCHANGED <<now, config, ollama_client, fanout, translation_service>>

\* The answers of the backend to these calls: an error, a translation, and
\* bodies that are empty, blank, or empty once the quotes are taken off.
LoggedResponses ==
    {HttpError, Http200(<<"x">>), Http200(<<>>), Http200(<<" ">>), Http200(<<"\"", "\"">>)}

\* The backend answers the request of task i; the answer is kept in the
\* history.
GenerateLogged(i, resp) ==
    /\ tasks[i].pc = "generate"
    /\ Apply(i, translate_text_generate(Machine(tasks[i]), now, resp), 0)
    /\ cache_log' = [cache_log EXCEPT !.answer = resp]
    /\ UNCHANGED <<now, config, ollama_client, fanout, translation_service>>

\* The texts of these calls: a short one and one over MAX_TEXT_LENGTH.
LoggedTexts == {<<"a">>, Repeat("a", MaxTextLen + 1)}

NextLogged ==
    \/ Tick
    \/ Enter
    \/ \E text \in LoggedTexts : TranslateLogged(0, text, Vi, En)
    \/ \E db_ok \in BOOLEAN : CacheGetDone(0, db_ok)
    \/ \E db_ok \in BOOLEAN : CreateDone(0, db_ok)
    \/ \E resp \in LoggedResponses : GenerateLogged(0, resp)
    \/ \E db_ok \in BOOLEAN : UpdateDone(0, db_ok)
    \/ \E db_ok \in BOOLEAN : CachePutDone(0, db_ok)

InitLogged ==
    /\ now = 0
    /\ config \in [CACHE_ENABLED : BOOLEAN, CACHE_TTL : 1..MaxTTL,
                   MAX_CONCURRENT_TRANSLATIONS : {1}, MAX_TEXT_LENGTH : {MaxTextLen}]
    /\ memory_cache = EmptyDict
    /\ translation_cache \in {{}, {OldRow}}
    /\ translation_requests = <<>>
    /\ ollama_client = FALSE
    /\ generate_calls = 0
    /\ tasks = [i \in {0} |-> NewTask("direct")]
    /\ semaphore = 0
    /\ fanout = NoFanout
    /\ translation_service = NoService
    /\ cache_log = [last |-> NoCall, stored |-> EmptyDict, clears |-> 0,
                    at_call |-> [memory_cache |-> EmptyDict, translation_cache |-> {}],
                    answer |-> NoAnswer]

SpecLogged == InitLogged /\ [][NextLogged]_vars

\* The call on task 0 has returned None.
ReturnedNull ==
    /\ tasks[0].pc = "returned"
    /\ tasks[0].calls > 0
    /\ tasks[0].ret = None

\* The tiers as the call found them.
MemoryAtCall == cache_log.at_call.memory_cache
TableAtCall == cache_log.at_call.translation_cache

\* C33 as stated: a translate_text call that returns None leaves both
\* cache tiers as it found them.
C33_AsStated ==
    ReturnedNull => (memory_cache = MemoryAtCall /\ translation_cache = TableAtCall)

\* C33 amended: a translate_text call that returns None has written
\* nothing to the cache: every memory entry and every row present when it
\* returns was there, with the same content, when it was called (its lookup
\* may have evicted an expired entry or row).
C33_NothingStoredOnNull ==
    ReturnedNull =>
        /\ \A k \in DOMAIN memory_cache :
               k \in DOMAIN MemoryAtCall /\ memory_cache[k] = MemoryAtCall[k]
        /\ translation_cache \subseteq TableAtCall
        /\ ~HasStep(tasks[0], "store")

\* Reached: with caching enabled, a call that missed both tiers, got an
\* error from the backend and returned None, the row of another call still
\* in the table as it was.
C33_Witness ==
    /\ ReturnedNull
    /\ config.CACHE_ENABLED
    /\ HasStep(tasks[0], "looked")
    /\ HasStep(tasks[0], "response")
    /\ memory_cache = MemoryAtCall
    /\ translation_cache = TableAtCall
    /\ translation_cache = {}
    /\ DOMAIN memory_cache = {}

\* A call that returned None has removed the expired row it found.
C33_ExpiredRowEvicted ==
    /\ ReturnedNull
    /\ HasStep(tasks[0], "response")
    /\ TableAtCall = {OldRow}
    /\ translation_cache = {}

---------------------------------------------------------------------------
(* The fan-out calls with every awaited call returning *)

\* The next step of branch i: entering the semaphore, or the return of the
\* call the branch awaits.
BranchStep(i) ==
    \/ BranchAcquire(i)
    \/ CacheGetDone(i, TRUE)
    \/ CreateDone(i, TRUE)
    \/ \E resp \in FanResponses : GenerateDone(i, resp)
    \/ UpdateDone(i, TRUE)
    \/ CachePutDone(i, TRUE)

\* Every backend and table call returns, the event loop resumes a branch
\* that can enter the semaphore, and gather returns once its tasks are done.
FairFan ==
    /\ \A i \in 1..MaxBranches : WF_vars(BranchStep(i))
    /\ WF_vars(FanoutReturn)

\* One fan-out call, with nothing else running in the process.
NextFanLive ==
    \/ \E n \in 0..MaxBranches : StartAll(<<"a">>, En, n)
    \/ \E texts \in Batches : StartBatch(texts, Vi, En)
    \/ \E i \in 1..MaxBranches : BranchStep(i)
    \/ FanoutReturn

SpecFanLive == InitFan /\ [][NextFanLive]_vars /\ FairFan

\* C34: a translate_to_all_languages or batch_translate call that has been
\* made returns, whatever the number of its branches and the limit K >= 1,
\* and when it has returned every one of its branches is done.
C34_FanoutTerminates ==
    /\ (fanout.state = "running") ~> (fanout.state = "returned")
    /\ [](fanout.state = "returned" => \A i \in Branches : tasks[i].pc = "done")

\* Reached: a call with as many branches as the bound allows and one
\* permit has returned, after every branch had to wait for the backend.
C34_Witness ==
    /\ fanout.state = "returned"
    /\ fanout.n = MaxBranches
    /\ K = 1
    /\ \A i \in Branches : tasks[i].pc = "done" /\ HasStep(tasks[i], "response")

---------------------------------------------------------------------------
(* The rows of one key, under SpecRace *)

\* C35 as stated: the table never holds more than one row for a composite
\* key, also when the stores of the key overlap between their select and
\* their insert.
C35_AsStated == Cardinality(RowsOf(RaceKey)) <= 1

\* Two stores that both found no row have both inserted one; a lookup made
\* now gets nothing from the table, because scalar_one_or_none() raises.
C35_TwoRows ==
    /\ \A p \in Racers : tasks[p].pc = "done" /\ tasks[p].op = "store"
    /\ Cardinality(RowsOf(RaceKey)) = 2
    /\ ~get_cached_db(EmptyDict, translation_cache, now, RaceKey[1], RaceKey[2], RaceKey[3], TRUE).result.found

---------------------------------------------------------------------------
(* An answer without text, under SpecLogged *)

\* The call on task 0 has returned after the backend answered 200 with a
\* 'response' that is empty once stripped and cleaned.
Answer == cache_log.answer
ReturnedAfterEmptyAnswer ==
    /\ tasks[0].pc = "returned"
    /\ Answer.kind = "http"
    /\ Answer.status_code = 200
    /\ Answer.json
    /\ clean_translation_response(strip(Answer.response)) = <<>>

NothingStored ==
    /\ \A k \in DOMAIN memory_cache :
           k \in DOMAIN MemoryAtCall /\ memory_cache[k] = MemoryAtCall[k]
    /\ translation_cache \subseteq TableAtCall

LedgerRowFailed ==
    /\ translation_requests[tasks[0].request_id].status = "failed"
    /\ translation_requests[tasks[0].request_id].error_message = "Translation failed"
    /\ translation_requests[tasks[0].request_id].translated_text = None

\* C36 as stated: after such an answer translate_text returns None, the
\* ledger row of the call is failed with the message "Translation failed",
\* and nothing has been stored in either tier.
C36_AsStated ==
    ReturnedAfterEmptyAnswer =>
        /\ tasks[0].ret = None
        /\ tasks[0].request_id # 0 => LedgerRowFailed
        /\ NothingStored

\* C36 amended: the same, the ledger row being failed when the call has a
\* row and its update was persisted; when the update was not persisted the
\* row is still in status processing.
C36_EmptyAnswerFails ==
    ReturnedAfterEmptyAnswer =>
        /\ tasks[0].ret = None
        /\ tasks[0].request_id # 0 =>
               IF HasStep(tasks[0], "update_error")
               THEN translation_requests[tasks[0].request_id].status = "processing"
               ELSE LedgerRowFailed
        /\ NothingStored

\* Reached: the backend answered 200 with a pair of quotes and nothing in
\* between; the call returned None and its row is failed.
C36_Witness ==
    /\ ReturnedAfterEmptyAnswer
    /\ Answer.response = <<"\"", "\"">>
    /\ config.CACHE_ENABLED
    /\ tasks[0].ret = None
    /\ tasks[0].request_id = 1
    /\ LedgerRowFailed
    /\ DOMAIN memory_cache = {}
    /\ translation_cache = {}

---------------------------------------------------------------------------
(* services/translation_service.py: TranslationService and its callers *)

\* The coroutines calling the service, the number of calls they make
\* between them, and what they call.
MaxServiceCalls == 2
Callers == {1, 2}
Methods == {"translate_text", "translate_to_all_languages", "batch_translate",
            "initialize", "close"}

\* Python's True, False and None as results of initialize().
PyTrue == "True"
PyFalse == "False"
PyNone == "None"
bool(value) == value = PyTrue

\* A caller that has made no call yet.  n is len(texts) of batch_translate;
\* translator is the object the pending call works on.
IdleCaller ==
    [pc |-> "idle", method |-> "none", n |-> 0, calls |-> 0, translator |-> 0,
     initialize |-> PyNone, ret_text |-> None, ret_all |-> EmptyDict, ret_batch |-> <<>>]

\* In this specification memory_cache[k] and ollama_client[k] belong to
\* the k-th AILocalTranslator the service has constructed.
InitService ==
    /\ now = 0
    /\ config \in [CACHE_ENABLED : {TRUE}, CACHE_TTL : {MaxTTL},
                   MAX_CONCURRENT_TRANSLATIONS : {1}, MAX_TEXT_LENGTH : {MaxTextLen}]
    /\ memory_cache = <<>>
    /\ translation_cache = {}
    /\ translation_requests = <<>>
    /\ ollama_client = <<>>
    /\ generate_calls = 0
    /\ tasks = [c \in Callers |-> IdleCaller]
    /\ semaphore = 0
    /\ fanout = NoFanout
    /\ translation_service = NoService
    /\ cache_log = EmptyLog

\* The step of translate_text that follows the return of the call it awaits.
translate_text_step(m, t, resp, has_client) ==
    CASE m.task.pc = "cache_get" -> translate_text_cache_get(m, t, TRUE)
      [] m.task.pc = "create_request" -> translate_text_create(m, t, TRUE, has_client)
      [] m.task.pc = "generate" -> translate_text_generate(m, t, resp)
      [] m.task.pc = "update_request" -> translate_text_update(m, t, TRUE)
      [] m.task.pc = "cache_put" -> translate_text_cache_put(m, t, TRUE)
      [] OTHER -> m

\* The steps of translate_text after its first: k returns of awaited calls.
RECURSIVE translate_text_steps(_, _, _, _, _)
translate_text_steps(m, t, resp, has_client, k) ==
    IF k = 0
    THEN m
    ELSE translate_text_step(translate_text_steps(m, t, resp, has_client, k - 1), t, resp, has_client)

\* translate_text run from its call to its return with no other coroutine
\* in between (lookup, ledger insert, request, ledger update, store).
translate_text_run(m, t, text, target_language, source_language, resp, has_client) ==
    translate_text_steps(translate_text_begin([m EXCEPT !.task = NewTask("direct")], t, text, target_language, source_language),
                         t, resp, has_client, 5)

\* The branches 1..k of a fan-out call run one after the other: the state
\* they leave and what each returned (translate_language returns the text
\* for the source language without calling translate_text).
RECURSIVE fanout_run(_, _, _, _, _, _, _, _)
fanout_run(m, t, kind, inputs, source_language, resp, has_client, k) ==
    IF k = 0
    THEN [machine |-> m, rets |-> <<>>]
    ELSE LET before == fanout_run(m, t, kind, inputs, source_language, resp, has_client, k - 1)
             input == inputs[k]
         IN  IF kind = "all" /\ input.target_language = source_language
             THEN [machine |-> before.machine, rets |-> Append(before.rets, input.text)]
             ELSE LET r == translate_text_run(before.machine, t, input.text, input.target_language, source_language, resp, has_client)
                  IN  [machine |-> r,
                       rets |-> Append(before.rets,
                                       IF kind = "all" /\ ~truthy(r.task.ret)
                                       THEN input.text ELSE r.task.ret)]

\* The arguments of the calls made through the service.
ServiceText == <<"a">>
ServiceLanguages == SubSeq(SUPPORTED_LANGUAGES, 1, MaxBranches)
AllInputs == [k \in 1..MaxBranches |-> [text |-> ServiceText, target_language |-> ServiceLanguages[k]]]
BatchInputs(n) == [k \in 1..n |-> [text |-> ServiceText, target_language |-> Vi]]

\* Variant in which batch_translate answers an uninitialized service with
\* an empty list.
not_initialized_empty_batch(caller, value) ==
    [caller EXCEPT !.pc = "returned",
                   !.initialize = value,
                   !.ret_text = None,
                   !.ret_all = EmptyDict,
                   !.ret_batch = <<>>]

\* What a method returns when initialize() gave a false value (lines 61-63,
\* 79-81, 127-129), and what initialize() itself returned.
NotInitialized(caller, value) ==
    [caller EXCEPT !.pc = "returned",
                   !.initialize = value,
                   !.ret_text = None,
                   !.ret_all = EmptyDict,
                   !.ret_batch = [k \in 1..caller.n |-> None]]

\* The call goes on after `if not self._initialized` (lines 61-65): the
\* method of self.translator is called.  initialize() called by the caller
\* itself just returns its value.
Delegate(caller, service, value) ==
    IF caller.method = "initialize"
    THEN [caller EXCEPT !.pc = "returned", !.initialize = value]
    ELSE IF service.translator = 0
    THEN [caller EXCEPT !.pc = "raised", !.initialize = value]
    ELSE [caller EXCEPT !.pc = "delegate", !.initialize = value,
                        !.translator = service.translator]

\* The calls made on the service so far.
CallsMade == Cardinality({ck \in Callers \X (1..MaxServiceCalls) : ck[2] <= tasks[ck[1]].calls})

\* A method of the service is called and runs to its first suspension
\* point: the probe of the database in initialize() (lines 22-27), the call
\* of the translator, or the __aexit__ of close() (lines 134-135).
ServiceCall(c, method, n) ==
    LET caller == [IdleCaller EXCEPT !.method = method, !.n = n, !.calls = tasks[c].calls + 1]
        service == translation_service
    IN  /\ tasks[c].pc \in {"idle", "returned", "raised"}
        /\ CallsMade < MaxServiceCalls
        /\ n > 0 => method = "batch_translate"
        /\ IF method = "close"
           THEN IF service.translator # 0
                THEN /\ tasks' = [tasks EXCEPT ![c] = [caller EXCEPT !.pc = "closing",
                                                                    !.translator = service.translator]]
                     /\ UNCHANGED translation_service
                ELSE /\ tasks' = [tasks EXCEPT ![c] = [caller EXCEPT !.pc = "returned"]]
                     /\ translation_service' = [service EXCEPT !._initialized = FALSE]
           ELSE /\ tasks' = [tasks EXCEPT ![c] =
                       IF service._initialized
                       THEN IF method = "initialize"
                            THEN [caller EXCEPT !.pc = "returned", !.initialize = PyNone]
                            ELSE Delegate(caller, service, PyNone)
                       ELSE [caller EXCEPT !.pc = "probe"]]
                /\ UNCHANGED translation_service
        /\ UNCHANGED <<now, config, memory_cache, translation_cache, translation_requests,
                       ollama_client, generate_calls, semaphore, fanout, cache_log>>

\* db_service.test_connection() returns (lines 26-33).  On True the
\* translator is constructed and entered, which replaces self.translator,
\* and the availability of the backend is asked for; on False, or when the
\* construction raises, initialize() returns False.
ProbeDone(c, outcome) ==
    /\ tasks[c].pc = "probe"
    /\ IF outcome = "ok"
       THEN /\ memory_cache' = Append(memory_cache, EmptyDict)
            /\ ollama_client' = Append(ollama_client, TRUE)
            /\ translation_service' = [translation_service EXCEPT !.translator = Len(ollama_client) + 1]
            /\ tasks' = [tasks EXCEPT ![c] = [@ EXCEPT !.pc = "available"]]
       ELSE /\ tasks' = [tasks EXCEPT ![c] = NotInitialized(@, PyFalse)]
            /\ UNCHANGED <<memory_cache, ollama_client, translation_service>>
    /\ UNCHANGED <<now, config, translation_cache, translation_requests,
                   generate_calls, semaphore, fanout, cache_log>>

\* ollama_client.is_available() returns (lines 36-43): on True the service
\* is initialized, initialize() returns True and the method goes on.
AvailableDone(c, available) ==
    /\ tasks[c].pc = "available"
    /\ IF available
       THEN /\ translation_service' = [translation_service EXCEPT !._initialized = TRUE]
            /\ tasks' = [tasks EXCEPT ![c] = Delegate(@, translation_service, PyTrue)]
       ELSE /\ tasks' = [tasks EXCEPT ![c] = NotInitialized(@, PyFalse)]
            /\ UNCHANGED translation_service
    /\ UNCHANGED <<now, config, memory_cache, translation_cache, translation_requests,
                   ollama_client, generate_calls, semaphore, fanout, cache_log>>

\* The method of the translator returns (lines 65, 83, 130).
DelegateDone(c, resp) ==
    LET caller == tasks[c]
        k == caller.translator
        m == [task |-> NewTask("direct"), memory_cache |-> memory_cache[k],
              translation_cache |-> translation_cache,
              translation_requests |-> translation_requests,
              generate_calls |-> generate_calls]
        inputs == CASE caller.method = "translate_text" -> BatchInputs(1)
                    [] caller.method = "batch_translate" -> BatchInputs(caller.n)
                    [] OTHER -> AllInputs
        kind == IF caller.method = "translate_to_all_languages" THEN "all" ELSE "batch"
        r == fanout_run(m, now, kind, inputs, En, resp, ollama_client[k], Len(inputs))
    IN  /\ caller.pc = "delegate"
        /\ memory_cache' = [memory_cache EXCEPT ![k] = r.machine.memory_cache]
        /\ translation_cache' = r.machine.translation_cache
        /\ translation_requests' = r.machine.translation_requests
        /\ generate_calls' = r.machine.generate_calls
        /\ tasks' = [tasks EXCEPT ![c] =
               CASE caller.method = "translate_text" ->
                        [caller EXCEPT !.pc = "returned", !.ret_text = r.rets[1]]
                 [] caller.method = "batch_translate" ->
                        [caller EXCEPT !.pc = "returned", !.ret_batch = r.rets]
                 [] OTHER ->
                        [caller EXCEPT !.pc = "returned",
                                       !.ret_all = [lang \in {inputs[j].target_language : j \in 1..Len(inputs)} |->
                                                       r.rets[CHOOSE j \in 1..Len(inputs) : inputs[j].target_language = lang]]]]
        /\ UNCHANGED <<now, config, ollama_client, semaphore, fanout, cache_log,
                       translation_service>>

\* The __aexit__ of the translator returns, and close() ends (lines 136-139).
CloseDone(c) ==
    /\ tasks[c].pc = "closing"
    /\ translation_service' = [_initialized |-> FALSE, translator |-> 0,
                               closed |-> translation_service.closed \cup {tasks[c].translator}]
    /\ tasks' = [tasks EXCEPT ![c] = [@ EXCEPT !.pc = "returned"]]
    /\ UNCHANGED <<now, config, memory_cache, translation_cache, translation_requests,
                   ollama_client, generate_calls, semaphore, fanout, cache_log>>

NextService ==
    \/ \E c \in Callers, method \in Methods, n \in 0..MaxBranches : ServiceCall(c, method, n)
    \/ \E c \in Callers, outcome \in {"ok", "fail", "raise"} : ProbeDone(c, outcome)
    \/ \E c \in Callers, available \in BOOLEAN : AvailableDone(c, available)
    \/ \E c \in Callers, resp \in FanResponses : DelegateDone(c, resp)
    \/ \E c \in Callers : CloseDone(c)

SpecService == InitService /\ [][NextService]_vars

---------------------------------------------------------------------------
(* Failed initialization of the service *)

\* The step of caller c in which its initialize() returns False.
InitializeFails(c) ==
    /\ tasks[c].pc \in {"probe", "available"}
    /\ tasks'[c].pc = "returned"
    /\ tasks'[c].initialize = PyFalse

\* What the method of caller c gave back.
Result(caller) ==
    CASE caller.method = "translate_text" -> caller.ret_text
      [] caller.method = "translate_to_all_languages" -> caller.ret_all
      [] caller.method = "batch_translate" -> caller.ret_batch
      [] OTHER -> caller.initialize

\* What the methods give back on a service that could not be initialized.
FailedResult(caller) ==
    CASE caller.method = "translate_text" -> None
      [] caller.method = "translate_to_all_languages" -> EmptyDict
      [] caller.method = "batch_translate" -> [k \in 1..caller.n |-> None]
      [] OTHER -> PyFalse

\* Caller c calls a method other than close().
CallStarts(c) ==
    /\ tasks'[c].calls = tasks[c].calls + 1
    /\ tasks'[c].method # "close"

\* C37: when initialize() returns False (failed database probe, backend
\* not available, or an exception) the step leaves the service as
\* uninitialized as it was, makes no generation request and writes no
\* ledger row, and the method returns None, an empty mapping or a list of
\* len(texts) None values; every call that finds the service uninitialized
\* starts initialize() again with the database probe.
C37_FailedInitialize ==
    [][\A c \in Callers :
          /\ InitializeFails(c) =>
                /\ translation_service' = translation_service
                /\ generate_calls' = generate_calls
                /\ translation_requests' = translation_requests
                /\ Result(tasks'[c]) = FailedResult(tasks[c])
          /\ (CallStarts(c) /\ ~translation_service._initialized) =>
                tasks'[c].pc = "probe"]_vars

\* Reached: batch_translate of MaxBranches texts returned that many None
\* values after the backend was found unavailable, nothing was requested
\* or recorded, the service is not initialized, and the call of the other
\* caller is probing the database again.
C37_Witness ==
    /\ tasks[1].pc = "returned"
    /\ tasks[1].method = "batch_translate"
    /\ tasks[1].n = MaxBranches
    /\ tasks[1].initialize = PyFalse
    /\ tasks[1].ret_batch = [k \in 1..MaxBranches |-> None]
    /\ translation_service = [NoService EXCEPT !.translator = 1]
    /\ tasks[2].pc = "probe"
    /\ tasks[2].method = "translate_text"
    /\ generate_calls = 0
    /\ translation_requests = <<>>

---------------------------------------------------------------------------
(* The value of initialize() *)

\* The step in which initialize(), called by caller c itself, returns.
InitializeReturns(c) ==
    /\ tasks'[c].method = "initialize"
    /\ tasks'[c].pc = "returned"
    /\ tasks[c].pc # "returned" \/ tasks'[c].calls # tasks[c].calls

\* C38: whenever initialize() returns on a service that is initialized,
\* the value it returns is true.
C38_AsStated ==
    [][\A c \in Callers :
          (InitializeReturns(c) /\ translation_service'._initialized) =>
              bool(tasks'[c].initialize)]_vars

\* The converse holds: a true value is returned only on a service that is
\* initialized when initialize() returns.
C38_TrueOnlyWhenInitialized ==
    [][\A c \in Callers :
          (InitializeReturns(c) /\ bool(tasks'[c].initialize)) =>
              translation_service'._initialized]_vars

\* Reached: initialize() was called on an initialized service and gave None.
C38_NoneFromLiveService ==
    /\ translation_service._initialized
    /\ translation_service.translator = 1
    /\ tasks[1].method = "initialize"
    /\ tasks[1].pc = "returned"
    /\ tasks[1].calls = 2
    /\ tasks[1].initialize = PyNone

---------------------------------------------------------------------------
(* The translators a service constructs *)

\* The translators constructed so far, and those no longer held by the
\* service on which __aexit__ was never awaited.
Constructed == 1..Len(ollama_client)
Abandoned ==
    {k \in Constructed : k # translation_service.translator /\ k \notin translation_service.closed}

\* The translators the calls in flight are working on.
InUse == {tasks[c].translator : c \in {d \in Callers : tasks[d].pc = "delegate"}}

\* C39: a translator the service has constructed is either the one it
\* holds or one that was closed, and the calls in flight all work on one
\* translator, hence on one memory cache.
C39_AsStated ==
    /\ Abandoned = {}
    /\ Cardinality(InUse) <= 1

\* Reached: initialization was retried after the backend was found
\* unavailable; the first translator was replaced and never closed.
C39_ReplacedOnRetry ==
    /\ translation_service.translator = 2
    /\ translation_service.closed = {}
    /\ tasks[1].calls = 2
    /\ tasks[2].calls = 0
    /\ Abandoned = {1}

\* Reached: two calls that arrived together on an uninitialized service
\* work on two translators, each with its own memory cache.
C39_TwoTranslatorsInUse ==
    /\ tasks[1].calls = 1
    /\ tasks[2].calls = 1
    /\ InUse = {1, 2}

---------------------------------------------------------------------------
(* The source language of a translation *)

\* Texts of up to MaxTextLen characters: blanks, a Latin letter, and one
\* character of each script the detection knows.
DetectChars == {" ", "a"} \cup CJK \cup Hangul \cup Cyrillic \cup Arabic \cup Thai
DetectTexts == UNION {[1..n -> DetectChars] : n \in 0..MaxTextLen}

\* The call is past the input checks and the detection (lines 54-64).
PastDetection(task) ==
    task.pc \in {"cache_get", "create_request", "generate", "update_request", "cache_put"}

\* The cache key was built for the source language "auto".
KeyOfAuto(key) ==
    /\ Len(key) > Len(Auto)
    /\ SubSeq(key, 1, Len(Auto) + 1) = Auto \o <<":">>

\* One translate_text call on an entered translator, for any of the texts
\* and with the source language given or left to the detection.
InitDetect ==
    /\ now = 0
    /\ config \in [CACHE_ENABLED : BOOLEAN, CACHE_TTL : {MaxTTL},
                   MAX_CONCURRENT_TRANSLATIONS : {1}, MAX_TEXT_LENGTH : {MaxTextLen}]
    /\ memory_cache = EmptyDict
    /\ translation_cache = {}
    /\ translation_requests = <<>>
    /\ ollama_client = TRUE
    /\ generate_calls = 0
    /\ tasks = [i \in {0} |-> NewTask("direct")]
    /\ semaphore = 0
    /\ fanout = NoFanout
    /\ translation_service = NoService
    /\ cache_log = EmptyLog

NextDetect ==
    \/ \E text \in DetectTexts, source_language \in {En, Auto} :
           tasks[0].pc = "idle" /\ Translate(0, text, Vi, source_language)
    \/ \E db_ok \in BOOLEAN : CacheGetDone(0, db_ok)
    \/ \E db_ok \in BOOLEAN : CreateDone(0, db_ok)
    \/ \E resp \in {HttpError, Http200(<<"x">>)} : GenerateDone(0, resp)
    \/ \E db_ok \in BOOLEAN : UpdateDone(0, db_ok)
    \/ \E db_ok \in BOOLEAN : CachePutDone(0, db_ok)

SpecDetect == InitDetect /\ [][NextDetect]_vars

\* C40: a call with a text that is not blank, once past the detection
\* (looking up the cache, inserting its ledger row, asking the backend,
\* storing), has a source language other than "auto", and no cache key,
\* cache row or ledger row carries "auto".
C40_SourceLanguageKnown ==
    /\ PastDetection(tasks[0]) =>
          /\ ~is_blank(tasks[0].text)
          /\ tasks[0].source_language # Auto
    /\ \A key \in DOMAIN memory_cache : ~KeyOfAuto(key)
    /\ \A row \in translation_cache : row.source_language # Auto
    /\ \A k \in 1..Len(translation_requests) : translation_requests[k].source_language # Auto

\* Reached: a call made with "auto" for a text of blanks and one Cyrillic
\* letter detected Russian, and its ledger row, its request to the backend
\* and its cache entries were made for "ru".
C40_Witness ==
    /\ tasks[0].pc = "returned"
    /\ tasks[0].text = <<" ", "{0400}">>
    /\ "detect" \in {tasks[0].steps[k] : k \in 1..Len(tasks[0].steps)}
    /\ tasks[0].source_language = Ru
    /\ tasks[0].ret = <<"x">>
    /\ generate_calls = 1
    /\ Len(translation_requests) = 1
    /\ translation_requests[1].source_language = Ru
    /\ cache_key(<<" ", "{0400}">>, Ru, Vi) \in DOMAIN memory_cache
    /\ \E row \in translation_cache : row.source_language = Ru /\ row.translated_text = <<"x">>

=============================================================================
